---- MODULE Spec2Model ----
(***************************************************************************)
(* A model of the allocation stack of FuraiEngine                          *)
(* (Engine/Core/src/Allocation.cpp): MemoryPool, FixedMemoryManager and    *)
(* DynamicMemoryManager, the GlobalMemoryManager facade over them, and     *)
(* Result (Engine/Core/include/FuraiEngine/Utility.hpp).                   *)
(*                                                                         *)
(* Addresses are integers.  The system heap is a row of equally sized      *)
(* slots; std::malloc hands out the base address of any slot that is not   *)
(* in use, so the relative order of two buffers is not fixed, and it       *)
(* returns NULL when no slot is left.  NULL is 0.                          *)
(* A MemoryPool object is identified by the base address of its buffer.    *)
(***************************************************************************)
EXTENDS Integers, Sequences, FiniteSets, TLC

VARIABLES
    pool,     \* a MemoryPool used on its own (SpecPool), NoPool elsewhere
    mgrs,     \* the FixedMemoryManagers: key -> manager
    sys,      \* blocks handed out directly by the system allocator
    held,     \* what the caller holds: allocations returned and not yet freed
    last,     \* the last call: operation, arguments, result
    log,      \* the calls made so far, kept by the scenario specifications
    status,   \* "ok", or how the program ended: "hung", "crashed", "corrupt"
    g_globalMemoryControl,       \* NULL, or the instance initGlobalMemory made
    g_initGlobalMemoryFlag,      \* the std::once_flag: "unset", "active", "set"
    g_globalMemoryControlMutex,  \* the thread that holds the mutex, 0 if none
    threads,  \* the threads calling GlobalMemoryManager: thread -> its frame
    result,   \* a Result<S, F> with the variables its caller reads it into
    array,    \* an Array<T> with the last call made on it
    g_pFile,      \* the log file: NULL until it is opened, then its FILE
    g_logMutexF,  \* the thread that holds the log mutex, 0 if none
    g_initializeLogSystemOnceF,  \* the std::once_flag of the log system
    loggers,  \* the threads that log: thread -> its frame
    written,  \* the parts written to the log file, in order, with who wrote
    memoryPool  \* a MemoryPool<ELEMENT_SIZE, ELEMENTS_COUNT> of Memory.cpp

vars == <<pool, mgrs, sys, held, last, log, status, g_globalMemoryControl,
          g_initGlobalMemoryFlag, g_globalMemoryControlMutex, threads, result,
          array, g_pFile, g_logMutexF, g_initializeLogSystemOnceF, loggers,
          written, memoryPool>>

\* The log system of Utility.cpp.
logSystem == <<g_pFile, g_logMutexF, g_initializeLogSystemOnceF, loggers,
               written>>

\* What the specifications without GlobalMemoryManager, Result, Array, the
\* log system and the MemoryPool of Memory.cpp leave alone.
facade == <<g_globalMemoryControl, g_initGlobalMemoryFlag,
            g_globalMemoryControlMutex, threads, result, array, logSystem,
            memoryPool>>

\* ------------------------------------------------------------------ bounds

MaxElementCount == 2      \* largest count given to a manager's constructor
MaxPools == 3             \* a manager grows to at most this many pools
MaxHeld == 5              \* allocations one manager's caller holds at a time
MaxPoolElements == 3      \* largest count given to a lone MemoryPool
MaxLog == 7               \* calls a scenario specification follows
MaxSize == 260            \* largest request size in SpecRoute
MaxThreads == 2           \* threads calling GlobalMemoryManager
MaxCycles == 1            \* cycles each of the threads runs
MaxValue == 3             \* largest success value a Result is built from
MaxIndex == 3             \* largest index given to an Array call
MaxSearchPools == 4       \* pools of the manager whose search is followed

\* ------------------------------------------------------- program constants

PointerWidth == 8         \* sizeof(U8*)
SIZE16 == 16
SIZE32 == 32
SIZE64 == 64
SIZE128 == 128
SIZE256 == 256

NULL == 0

INIT_COUNT16 == 32
INIT_COUNT32 == 32
INIT_COUNT64 == 32
INIT_COUNT128 == 16
INIT_COUNT256 == 16

\* Array.hpp: the buffer length of Array()
INIT_LENGTH == 8

\* ----------------------------------------------------------- system heap

\* One slot holds the largest buffer any pool of the model asks for.
SlotSize == SIZE256 * (MaxElementCount + MaxPoolElements + INIT_COUNT256)

\* Slots of the heap; one more than one manager can fill.
NumSlots == MaxPools + 1

Slots == 1..NumSlots

Base(slot) == slot * SlotSize

NoPool == [bufferPointer |-> NULL]

\* ------------------------------------------------------------ MemoryPool

\* The constructor's loop: every element is pushed on the free list, its
\* first word taking the previous list top.
RECURSIVE LinkElements(_, _, _, _, _, _)
LinkElements(base, step, length, i, top, mem) ==
    IF i < length
    THEN LinkElements(base, step, length, i + step,
                      base + i, mem @@ ((base + i) :> top))
    ELSE [top |-> top, mem |-> mem]

\* MemoryPool with the count taken as given.
MemoryPoolUncoerced(base, size, count) ==
    LET elementSize == IF size < PointerWidth THEN PointerWidth ELSE size
        linked == LinkElements(base, elementSize, elementSize * count,
                               0, NULL, <<>>)
    IN  [ elementSize |-> elementSize,
          elementCount |-> count,
          bufferPointer |-> base,
          bufferAddressMin |-> base,
          bufferAddressMax |-> base + elementSize * count - 1,
          freeElementListTop |-> linked.top,
          mem |-> linked.mem,
          freeElementCount |-> count ]

\* MemoryPool::MemoryPool(size, count) on a buffer malloc put at base.
\* mem is the first word of every element on the free list.
MemoryPool(base, size, count) ==
    LET elementSize == IF size < PointerWidth THEN PointerWidth ELSE size
        elementCount == IF count < 1 THEN 1 ELSE count
        addrTop == base
        addrEnd == base + elementSize * elementCount - 1
        linked == LinkElements(base, elementSize, elementSize * elementCount,
                               0, NULL, <<>>)
    IN  [ elementSize |-> elementSize,
          elementCount |-> elementCount,
          bufferPointer |-> base,
          bufferAddressMin |-> IF addrTop < addrEnd THEN addrTop ELSE addrEnd,
          bufferAddressMax |-> IF addrTop < addrEnd THEN addrEnd ELSE addrTop,
          freeElementListTop |-> linked.top,
          mem |-> linked.mem,
          freeElementCount |-> elementCount ]

\* A function without the argument a.
Without(f, a) == [x \in DOMAIN f \ {a} |-> f[x]]

\* PoolAllocate with the list top left where it was.
PoolAllocateKeepsTop(pl) ==
    LET ptr == pl.freeElementListTop
    IN  IF ptr # NULL
        THEN [ pool |-> [pl EXCEPT !.freeElementCount = @ - 1], ptr |-> ptr ]
        ELSE [ pool |-> pl, ptr |-> ptr ]

\* PoolAllocate with the free count left as it was.
PoolAllocateKeepsCount(pl) ==
    LET ptr == pl.freeElementListTop
    IN  IF ptr # NULL
        THEN [ pool |-> [pl EXCEPT !.freeElementListTop = pl.mem[ptr],
                                   !.mem = Without(@, ptr)],
               ptr |-> ptr ]
        ELSE [ pool |-> pl, ptr |-> ptr ]

\* PoolAllocate that lowers the free count of an empty pool as well.
PoolAllocateCountsEmpty(pl) ==
    LET ptr == pl.freeElementListTop
    IN  IF ptr # NULL
        THEN [ pool |-> [pl EXCEPT !.freeElementCount = @ - 1,
                                   !.freeElementListTop = pl.mem[ptr],
                                   !.mem = Without(@, ptr)],
               ptr |-> ptr ]
        ELSE [ pool |-> [pl EXCEPT !.freeElementCount = @ - 1], ptr |-> ptr ]

\* MemoryPool::allocate(): the pool after the call and the pointer returned.
\* The element handed out is the caller's to write: its first word is no
\* longer part of the pool's state, until deallocate writes it again.
PoolAllocate(pl) ==
    LET ptr == pl.freeElementListTop
    IN  IF ptr # NULL
        THEN [ pool |-> [pl EXCEPT !.freeElementCount = @ - 1,
                                   !.freeElementListTop = pl.mem[ptr],
                                   !.mem = Without(@, ptr)],
               ptr |-> ptr ]
        ELSE [ pool |-> pl, ptr |-> ptr ]

\* PoolDeallocate with the free count left as it was.
PoolDeallocateKeepsCount(pl, pointer) ==
    IF /\ pointer # NULL
       /\ pl.bufferAddressMin <= pointer
       /\ pointer <= pl.bufferAddressMax
    THEN [pl EXCEPT !.mem = (pointer :> pl.freeElementListTop) @@ @,
                    !.freeElementListTop = pointer]
    ELSE pl

\* PoolDeallocate without the test of the address.
PoolDeallocateUnchecked(pl, pointer) ==
    [pl EXCEPT !.freeElementCount = @ + 1,
               !.mem = (pointer :> pl.freeElementListTop) @@ @,
               !.freeElementListTop = pointer]

\* MemoryPool::deallocate(pointer): the pool after the call.
PoolDeallocate(pl, pointer) ==
    IF /\ pointer # NULL
       /\ pl.bufferAddressMin <= pointer
       /\ pointer <= pl.bufferAddressMax
    THEN [pl EXCEPT !.freeElementCount = @ + 1,
                    !.mem = (pointer :> pl.freeElementListTop) @@ @,
                    !.freeElementListTop = pointer]
    ELSE pl

managedAddresMin(pl) == pl.bufferAddressMin

managedAddresMax(pl) == pl.bufferAddressMax

memoryElementCount(pl) == pl.elementCount

freeMemoryElementCount(pl) == pl.freeElementCount

\* The start addresses of the elements of a pool's buffer.
Elements(pl) ==
    { pl.bufferPointer + i * pl.elementSize : i \in 0..(pl.elementCount - 1) }

\* The free list walked from its top, at most n links far.
RECURSIVE Walk(_, _, _)
Walk(pl, p, n) ==
    IF p = NULL \/ n = 0 \/ p \notin DOMAIN pl.mem
    THEN <<>>
    ELSE <<p>> \o Walk(pl, pl.mem[p], n - 1)

FreeList(pl) == Walk(pl, pl.freeElementListTop, pl.elementCount + 1)

FreeSet(pl) == { FreeList(pl)[i] : i \in 1..Len(FreeList(pl)) }

\* ---------------------------------------------------- FixedMemoryManager

\* addMemoryPool's first loop: pools are copied while their minimum address
\* is below the new pool's; the result is the number of pools copied.
RECURSIVE CopyWhileBelow(_, _, _)
CopyWhileBelow(list, pl, i) ==
    IF i < Len(list) /\ managedAddresMin(list[i + 1]) < managedAddresMin(pl)
    THEN CopyWhileBelow(list, pl, i + 1)
    ELSE i

\* addMemoryPool with the new pool put at the end of the list.
addMemoryPoolAtEnd(m, base) ==
    [m EXCEPT !.poolCount = @ + 1,
              !.poolList = Append(@, MemoryPool(base, m.elementSize,
                                                m.elementCount))]

\* addMemoryPool with the new pool's elements one pointer wider.
addMemoryPoolWider(m, base) ==
    LET pl == MemoryPool(base, m.elementSize + PointerWidth, m.elementCount)
        i == CopyWhileBelow(m.poolList, pl, 0)
    IN  [m EXCEPT !.poolCount = @ + 1,
                  !.poolList = SubSeq(@, 1, i) \o <<pl>>
                               \o SubSeq(@, i + 1, Len(@))]

\* addMemoryPool(size, count, length, list) with the new buffer at base:
\* the manager with the new pool in its list.
addMemoryPool(m, base) ==
    LET pl == MemoryPool(base, m.elementSize, m.elementCount)
        i == CopyWhileBelow(m.poolList, pl, 0)
    IN  [m EXCEPT !.poolCount = @ + 1,
                  !.poolList = SubSeq(@, 1, i) \o <<pl>>
                               \o SubSeq(@, i + 1, Len(@))]

\* removeMemoryPool(index, length, list), index counted from 0.
removeMemoryPool(m, index) ==
    [m EXCEPT !.poolCount = @ - 1,
              !.poolList = SubSeq(@, 1, index)
                           \o SubSeq(@, index + 2, Len(@))]

\* FixedMemoryManager::FixedMemoryManager(size, count), first buffer at base.
\* stale keeps what the pool object m_allocPool points to last held when
\* that object has been deleted.
FixedMemoryManager(size, count, base) ==
    [ elementSize |-> size,
      elementCount |-> count,
      poolCount |-> 1,
      poolList |-> <<MemoryPool(base, size, count)>>,
      allocPool |-> base,
      stale |-> NoPool ]

\* The slots no pool and no system block uses.
UsedBases ==
    UNION { { mgrs[k].poolList[i].bufferPointer :
                i \in 1..Len(mgrs[k].poolList) } : k \in DOMAIN mgrs }
    \cup sys
    \cup (IF pool = NoPool THEN {} ELSE {pool.bufferPointer})

FreeBases(slots) == { Base(s) : s \in slots } \ UsedBases

\* The place of m_allocPool in the pool list, 0 when it points to a pool
\* that was deleted.
TargetIndex(m) ==
    IF \E i \in 1..Len(m.poolList) :
           m.poolList[i].bufferPointer = m.allocPool
    THEN CHOOSE i \in 1..Len(m.poolList) :
             m.poolList[i].bufferPointer = m.allocPool
    ELSE 0

\* GrowFailure with the list length raised before the exception leaves.
GrowFailureCounted(m) ==
    [ m |-> [m EXCEPT !.poolCount = @ + 1], ptr |-> NULL, from |-> NULL,
      grew |-> FALSE, live |-> TRUE, exception |-> TRUE ]

\* addMemoryPool when std::malloc has no buffer for the new pool: the
\* MemoryPool constructor throws MemoryException before the list, its
\* length or m_allocPool are written.
GrowFailure(m) ==
    [ m |-> m, ptr |-> NULL, from |-> NULL, grew |-> FALSE, live |-> TRUE,
      exception |-> TRUE ]

\* allocate() when the target has no free element: a pool is added at any
\* free place of the heap, becomes the target and serves the call; with no
\* free place the call ends with the exception.
AllocateGrow(m, free) ==
    IF free = {} THEN {GrowFailure(m)} ELSE
    { LET m2 == addMemoryPool(m, b)
          i == CHOOSE j \in 1..Len(m2.poolList) :
                   m2.poolList[j].bufferPointer = b
          r == PoolAllocate(m2.poolList[i])
      IN  [ m |-> [m2 EXCEPT !.allocPool = b, !.poolList[i] = r.pool,
                             !.stale = NoPool],
            ptr |-> r.ptr, from |-> b, grew |-> TRUE, live |-> TRUE,
            exception |-> FALSE ]
      : b \in free }

\* allocate() served by the target pool, which is in the list at index i.
AllocateLive(m, i) ==
    LET r == PoolAllocate(m.poolList[i])
    IN  { [ m |-> [m EXCEPT !.poolList[i] = r.pool],
            ptr |-> r.ptr, from |-> m.allocPool, grew |-> FALSE,
            live |-> TRUE, exception |-> FALSE ] }

\* allocate() served by the deleted pool object m_allocPool still points to,
\* read as it was left.
AllocateStale(m) ==
    LET r == PoolAllocate(m.stale)
    IN  { [ m |-> [m EXCEPT !.stale = r.pool],
            ptr |-> r.ptr, from |-> m.allocPool, grew |-> FALSE,
            live |-> FALSE, exception |-> FALSE ] }

\* FixedMemoryManager::allocate() up to its end: the manager after the call,
\* the element popped and the pool it came from.  m_allocPool is read
\* without a check that the pool still exists; a deleted pool's memory reads
\* either as it was left or as recycled (a free count of 0).
AllocateBody(m, free, canGrow) ==
    LET i == TargetIndex(m)
        grow == IF canGrow THEN AllocateGrow(m, free) ELSE {}
    IN  IF i # 0
        THEN IF freeMemoryElementCount(m.poolList[i]) = 0
             THEN grow
             ELSE AllocateLive(m, i)
        ELSE (IF freeMemoryElementCount(m.stale) = 0
              THEN grow
              ELSE AllocateStale(m))
             \cup grow

\* allocate() ends without a return statement: the caller gets what the
\* call of MemoryPool::allocate left in the result register, or the build
\* traps at the end of the function.
MissingReturn(ptr) ==
    { [status |-> "ok", ptr |-> ptr], [status |-> "crashed", ptr |-> NULL] }

\* static_cast<USize>(l - r * 0.5f), as the set of values a build can give.
\* A result in (-1, 0] truncates to 0.  A result of -1 or less cannot be
\* represented and the conversion is undefined: it gives the wrapped value
\* (written here as the negative number k, standing for 2^64 + k) or 0.
FloatToUSize(l, r) ==
    LET twice == 2 * l - r
    IN  IF twice >= 0 THEN {twice \div 2}
        ELSE IF twice = -1 THEN {0}
        ELSE {0 - ((0 - twice) \div 2), 0}

\* 1 < r - l in USize arithmetic: a difference below 0 wraps to a huge value.
LoopGuard(l, r) == (r - l < 0) \/ (1 < r - l)

\* The search loop of FixedMemoryManager::deallocate from (l, r, p) on, as
\* the set of its outcomes: the index it ends with, "hung" when (l, r, p)
\* repeats for ever, "crashed" when it reads m_poolList[p] outside the list.
\* Indices count from 0 as in the source.  An iteration that leaves (l, r, p)
\* as it found them is repeated for ever; fuel bounds the other iterations
\* by the number of different (l, r) there are.
RECURSIVE Search(_, _, _, _, _, _)
Search(list, addr, l, r, p, fuel) ==
    IF ~LoopGuard(l, r) THEN {[kind |-> "found", p |-> p]}
    ELSE IF p < 0 \/ p >= Len(list) THEN {[kind |-> "crashed", p |-> p]}
    ELSE IF fuel = 0 THEN {[kind |-> "hung", p |-> p]}
    ELSE LET below == managedAddresMin(list[p + 1]) <= addr
             l2 == IF below THEN p ELSE l
             r2 == IF below THEN r ELSE p
         IN  UNION { IF l2 = l /\ r2 = r /\ l2 + d = p
                     THEN {[kind |-> "hung", p |-> p]}
                     ELSE Search(list, addr, l2, r2, l2 + d, fuel - 1)
                     : d \in FloatToUSize(l2, r2) }

SearchFuel(list) == (Len(list) + 1) * (Len(list) + 1) + 1

\* The pool FixedMemoryManager::deallocate ends its search with.
FindPool(m, pointer) ==
    Search(m.poolList, pointer, 0, m.poolCount, m.poolCount \div 2,
           SearchFuel(m.poolList))

\* What deallocate does once the search has ended with index p: the element
\* is given back to pool p and the pool is removed when all its elements
\* are free.  Reading m_poolList[p] outside the list (an empty list holds
\* one null entry) ends the program.
DeallocateAt(m, p, pointer) ==
    IF p < 0 \/ p >= Len(m.poolList)
    THEN [m |-> m, status |-> "crashed", pool |-> NULL, removed |-> FALSE]
    ELSE LET pl == PoolDeallocate(m.poolList[p + 1], pointer)
             freed == [m EXCEPT !.poolList[p + 1] = pl]
         IN  IF memoryElementCount(pl) = freeMemoryElementCount(pl)
             THEN [ m |-> [removeMemoryPool(freed, p) EXCEPT
                             !.stale = IF pl.bufferPointer = m.allocPool
                                       THEN pl ELSE @],
                    status |-> "ok", pool |-> pl.bufferPointer,
                    removed |-> TRUE ]
             ELSE [ m |-> freed, status |-> "ok",
                    pool |-> pl.bufferPointer, removed |-> FALSE ]

\* FixedMemoryManager::deallocate(pointer), as the set of its outcomes.
DeallocateBody(m, pointer) ==
    { IF f.kind = "found"
      THEN DeallocateAt(m, f.p, pointer)
      ELSE [m |-> m, status |-> f.kind, pool |-> NULL, removed |-> FALSE]
      : f \in FindPool(m, pointer) }

\* FixedMemoryManager::poolManagedElementCount() const
poolManagedElementCount(m) == m.elementCount

\* The setter with the request dropped.
poolManagedElementCountKept(m, count) == m

\* FixedMemoryManager::poolManagedElementCount(count), the setter
poolManagedElementCountSet(m, count) ==
    [m EXCEPT !.elementCount = IF count < 1 THEN 1 ELSE count]

\* Addresses that lie in no pool of the manager: the null pointer, the
\* start of every heap slot that holds none of its buffers, and the address
\* right after each of its buffers.
ForeignPointers(m, slots) ==
    { a \in {NULL} \cup { Base(sl) : sl \in slots }
              \cup { managedAddresMax(m.poolList[i]) + 1
                       : i \in 1..Len(m.poolList) } :
        \A i \in 1..Len(m.poolList) :
            \/ a < managedAddresMin(m.poolList[i])
            \/ a > managedAddresMax(m.poolList[i]) }

\* --------------------------------------------------- DynamicMemoryManager

Classes == <<"m_memory16", "m_memory32", "m_memory64", "m_memory128",
             "m_memory256">>

ClassSize == <<SIZE16, SIZE32, SIZE64, SIZE128, SIZE256>>

\* DynamicMemoryManager::DynamicMemoryManager with the five first buffers
\* at the given bases.
DynamicMemoryManager(memory16Count, memory32Count, memory64Count, memory128Count, memory256Count, bases) ==
    LET counts == <<memory16Count, memory32Count, memory64Count,
                    memory128Count, memory256Count>>
    IN  [ k \in { Classes[i] : i \in 1..Len(Classes) } |->
            LET i == CHOOSE j \in 1..Len(Classes) : Classes[j] = k
            IN  FixedMemoryManager(ClassSize[i], counts[i], bases[i]) ]

\* AllocateBranch with < for <=.
AllocateBranchStrict(size) ==
    IF size < SIZE16 THEN "m_memory16"
    ELSE IF size < SIZE32 THEN "m_memory32"
    ELSE IF size < SIZE64 THEN "m_memory64"
    ELSE IF size < SIZE128 THEN "m_memory128"
    ELSE IF size < SIZE256 THEN "m_memory256"
    ELSE "system"

\* The branch DynamicMemoryManager::allocate(size) takes.
AllocateBranch(size) ==
    IF size <= SIZE16 THEN "m_memory16"
    ELSE IF size <= SIZE32 THEN "m_memory32"
    ELSE IF size <= SIZE64 THEN "m_memory64"
    ELSE IF size <= SIZE128 THEN "m_memory128"
    ELSE IF size <= SIZE256 THEN "m_memory256"
    ELSE "system"

\* DeallocateBranch with < for <=.
DeallocateBranchStrict(size) ==
    IF size < SIZE16 THEN "m_memory16"
    ELSE IF size < SIZE32 THEN "m_memory32"
    ELSE IF size < SIZE64 THEN "m_memory64"
    ELSE IF size < SIZE128 THEN "m_memory128"
    ELSE IF size < SIZE256 THEN "m_memory256"
    ELSE "system"

\* The branch DynamicMemoryManager::deallocate(pointer, size) takes.
DeallocateBranch(size) ==
    IF size <= SIZE16 THEN "m_memory16"
    ELSE IF size <= SIZE32 THEN "m_memory32"
    ELSE IF size <= SIZE64 THEN "m_memory64"
    ELSE IF size <= SIZE128 THEN "m_memory128"
    ELSE IF size <= SIZE256 THEN "m_memory256"
    ELSE "system"

\* ------------------------------------------------------------- the calls

NoCall ==
    [ op |-> "none", size |-> 0, ptr |-> NULL, class |-> "none",
      pool |-> NULL, grew |-> FALSE, removed |-> FALSE, exception |-> FALSE,
      count |-> 0 ]

Holding(ptr, size, class, from) ==
    [ptr |-> ptr, size |-> size, class |-> class, pool |-> from]

\* The program has ended in the call c: nothing of its memory is left.
Crashed(c) ==
    /\ status' = "crashed"
    /\ last' = c
    /\ pool' = NoPool
    /\ mgrs' = <<>>
    /\ sys' = {}
    /\ held' = {}

\* p = pool.allocate() on the lone MemoryPool
PoolAllocateCall ==
    /\ status = "ok"
    /\ LET r == PoolAllocate(pool)
       IN  /\ pool' = r.pool
           /\ held' = IF r.ptr = NULL THEN held
                      ELSE held \cup {Holding(r.ptr, 0, "pool",
                                              pool.bufferPointer)}
           /\ last' = [NoCall EXCEPT !.op = "pool.allocate", !.ptr = r.ptr,
                                     !.class = "pool",
                                     !.pool = pool.bufferPointer]
    /\ UNCHANGED <<mgrs, sys, status>>

\* pool.deallocate(p) on the lone MemoryPool, for a pointer the caller holds
PoolDeallocateCall ==
    /\ status = "ok"
    /\ \E h \in held :
           /\ pool' = PoolDeallocate(pool, h.ptr)
           /\ held' = held \ {h}
           /\ last' = [NoCall EXCEPT !.op = "pool.deallocate", !.ptr = h.ptr,
                                     !.class = "pool",
                                     !.pool = pool.bufferPointer]
    /\ UNCHANGED <<mgrs, sys, status>>

\* p = manager k .allocate(), asked for with a request of the given size;
\* slots is the part of the heap malloc serves.
\* A call served by a deleted pool has written to memory given back to the
\* system allocator: the program is followed no further ("corrupt").
ManagerAllocate(k, size, slots) ==
    /\ status = "ok"
    /\ Cardinality({h \in held : h.class = k}) < MaxHeld
    /\ \E o \in AllocateBody(mgrs[k], FreeBases(slots),
                            mgrs[k].poolCount < MaxPools) :
       \E r \in (IF o.exception THEN {[status |-> "ok", ptr |-> NULL]}
                ELSE MissingReturn(o.ptr)) :
       LET c == [ op |-> "allocate", size |-> size, ptr |-> r.ptr,
                  class |-> k, pool |-> o.from, grew |-> o.grew,
                  removed |-> FALSE, exception |-> o.exception, count |-> 0 ]
       IN  IF r.status = "crashed"
           THEN Crashed(c)
           ELSE /\ mgrs' = [mgrs EXCEPT ![k] = o.m]
                /\ status' = IF o.live THEN r.status ELSE "corrupt"
                /\ held' = IF r.ptr # NULL
                           THEN held \cup {Holding(r.ptr, size, k, o.from)}
                           ELSE held
                /\ last' = c
                /\ UNCHANGED <<pool, sys>>

\* manager k .deallocate(h.ptr) for an allocation h the caller holds.  A
\* call that hangs in the search leaves the memory as it found it.
ManagerDeallocate(k, h) ==
    /\ status = "ok"
    /\ \E o \in DeallocateBody(mgrs[k], h.ptr) :
       LET c == [ op |-> "deallocate", size |-> h.size, ptr |-> h.ptr,
                  class |-> k, pool |-> o.pool, grew |-> FALSE,
                  removed |-> o.removed, exception |-> FALSE, count |-> 0 ]
       IN  IF o.status = "crashed"
           THEN Crashed(c)
           ELSE /\ mgrs' = [mgrs EXCEPT ![k] = o.m]
                /\ status' = o.status
                /\ held' = IF o.status = "ok" THEN held \ {h} ELSE held
                /\ last' = c
                /\ UNCHANGED <<pool, sys>>

\* manager k .deallocate(pointer) for a pointer that lies in none of the
\* manager's pools; the caller holds what it held.
ManagerDeallocateForeign(k, slots) ==
    /\ status = "ok"
    /\ \E pointer \in ForeignPointers(mgrs[k], slots) :
       \E o \in DeallocateBody(mgrs[k], pointer) :
       LET c == [ op |-> "deallocate foreign", size |-> 0, ptr |-> pointer,
                  class |-> k, pool |-> o.pool, grew |-> FALSE,
                  removed |-> o.removed, exception |-> FALSE, count |-> 0 ]
       IN  IF o.status = "crashed"
           THEN Crashed(c)
           ELSE /\ mgrs' = [mgrs EXCEPT ![k] = o.m]
                /\ status' = o.status
                /\ last' = c
                /\ UNCHANGED <<pool, sys, held>>

\* std::malloc(size): any free place of the heap, NULL when there is none.
Malloc(slots) == IF FreeBases(slots) = {} THEN {NULL} ELSE FreeBases(slots)

\* new MemoryPool(size, count): the buffer is where std::malloc puts it;
\* with no memory the constructor throws MemoryException and there is no
\* pool.
PoolConstructCall(slots) ==
    /\ status = "ok"
    /\ pool = NoPool
    /\ \E size \in {0, PointerWidth, SIZE16}, count \in 0..MaxPoolElements,
          b \in Malloc(slots) :
           /\ pool' = IF b = NULL THEN NoPool ELSE MemoryPool(b, size, count)
           /\ last' = [NoCall EXCEPT !.op = "MemoryPool", !.size = size,
                                     !.count = count, !.ptr = b,
                                     !.exception = (b = NULL)]
    /\ UNCHANGED <<mgrs, sys, held, status>>

\* The pool is destroyed (~MemoryPool frees the buffer); its user drops the
\* pointers it got from it.
PoolDestroyCall ==
    /\ status = "ok"
    /\ pool # NoPool
    /\ pool' = NoPool
    /\ held' = {}
    /\ last' = [NoCall EXCEPT !.op = "~MemoryPool", !.ptr = pool.bufferPointer]
    /\ UNCHANGED <<mgrs, sys, status>>

\* pool.deallocate(p) on the lone MemoryPool for p null or right outside
\* the buffer
PoolDeallocateForeignCall ==
    /\ status = "ok"
    /\ pool # NoPool
    /\ \E pointer \in {NULL, managedAddresMin(pool) - 1,
                        managedAddresMax(pool) + 1} :
           /\ pool' = PoolDeallocate(pool, pointer)
           /\ last' = [NoCall EXCEPT !.op = "pool.deallocate foreign",
                                     !.ptr = pointer, !.class = "pool",
                                     !.pool = pool.bufferPointer]
    /\ UNCHANGED <<mgrs, sys, held, status>>

\* n = manager k .poolManagedElementCount()
ManagerGetCount(k) ==
    /\ status = "ok"
    /\ last' = [NoCall EXCEPT !.op = "get", !.class = k,
                              !.size = poolManagedElementCount(mgrs[k])]
    /\ UNCHANGED <<pool, mgrs, sys, held, status>>

\* manager k .poolManagedElementCount(count)
ManagerSetCount(k, count) ==
    /\ status = "ok"
    /\ mgrs' = [mgrs EXCEPT ![k] = poolManagedElementCountSet(@, count)]
    /\ last' = [NoCall EXCEPT !.op = "set", !.class = k, !.size = count]
    /\ UNCHANGED <<pool, sys, held, status>>

\* return std::malloc(size) for a request above the largest class
SystemAllocate(size, slots) ==
    /\ status = "ok"
    /\ \E b \in Malloc(slots) :
           /\ sys' = IF b = NULL THEN sys ELSE sys \cup {b}
           /\ held' = IF b = NULL THEN held
                      ELSE held \cup {Holding(b, size, "system", NULL)}
           /\ last' = [NoCall EXCEPT !.op = "allocate", !.size = size,
                                     !.ptr = b, !.class = "system"]
    /\ UNCHANGED <<pool, mgrs, status>>

\* std::free(h.ptr)
SystemDeallocate(h) ==
    /\ status = "ok"
    /\ sys' = sys \ {h.ptr}
    /\ held' = held \ {h}
    /\ last' = [NoCall EXCEPT !.op = "deallocate", !.size = h.size,
                              !.ptr = h.ptr, !.class = "system"]
    /\ UNCHANGED <<pool, mgrs, status>>

\* DynamicAllocate with every pooled request sent to the 256 byte class.
DynamicAllocateLargest(size, slots) ==
    IF AllocateBranch(size) = "system"
    THEN SystemAllocate(size, slots)
    ELSE ManagerAllocate("m_memory256", size, slots)

\* p = DynamicMemoryManager::allocate(size)
DynamicAllocate(size, slots) ==
    IF AllocateBranch(size) = "system"
    THEN SystemAllocate(size, slots)
    ELSE ManagerAllocate(AllocateBranch(size), size, slots)

\* DynamicMemoryManager::deallocate(h.ptr, h.size) for an allocation h the
\* caller holds, with the size it was asked for.
DynamicDeallocate(h) ==
    IF DeallocateBranch(h.size) = "system"
    THEN SystemDeallocate(h)
    ELSE ManagerDeallocate(DeallocateBranch(h.size), h)

\* A step that keeps no log, and a step of a scenario, which does.
Unlogged(step) == step /\ UNCHANGED <<log, facade>>

Logged(step) == Len(log) < MaxLog /\ step /\ log' = Append(log, last') /\ UNCHANGED facade

\* The log system before any Logger exists, with no thread that logs.
NoLogSystem ==
    /\ g_pFile = NULL
    /\ g_logMutexF = 0
    /\ g_initializeLogSystemOnceF = "unset"
    /\ loggers = <<>>
    /\ written = <<>>

\* No thread has called GlobalMemoryManager and no Result is in use.
NoFacade ==
    /\ g_globalMemoryControl = NULL
    /\ g_initGlobalMemoryFlag = "unset"
    /\ g_globalMemoryControlMutex = 0
    /\ threads = <<>>
    /\ result = <<>>
    /\ NoLogSystem
    /\ memoryPool = <<>>
    /\ array = <<>>

\* ------------------------------------------------- a MemoryPool on its own

PoolSizes == {0, PointerWidth, SIZE16}

InitPool ==
    /\ \E size \in PoolSizes, count \in 0..MaxPoolElements, slot \in Slots :
           pool = MemoryPool(Base(slot), size, count)
    /\ mgrs = <<>>
    /\ sys = {}
    /\ held = {}
    /\ last = NoCall
    /\ log = <<>>
    /\ status = "ok"
    /\ NoFacade

NextPool == Unlogged(PoolAllocateCall) \/ Unlogged(PoolDeallocateCall)

SpecPool == InitPool /\ [][NextPool]_vars

\* MemoryPools constructed and destroyed on a heap that other blocks fill
\* in part or whole, and handed pointers that are not their own.
InitConstruct ==
    /\ pool = NoPool
    /\ mgrs = <<>>
    /\ sys \in SUBSET { Base(sl) : sl \in Slots }
    /\ held = {}
    /\ last = NoCall
    /\ log = <<>>
    /\ status = "ok"
    /\ NoFacade

Construct == PoolConstructCall(Slots)

NextConstruct ==
    \/ Unlogged(Construct)
    \/ Unlogged(PoolDestroyCall)
    \/ Unlogged(pool # NoPool /\ PoolAllocateCall)
    \/ Unlogged(pool # NoPool /\ PoolDeallocateCall)
    \/ Unlogged(PoolDeallocateForeignCall)

SpecConstruct == InitConstruct /\ [][NextConstruct]_vars

\* ------------------------------------------ a FixedMemoryManager on its own

FixedSizes == {SIZE16}

TheManager == "manager"

\* The slot of the first buffer: later buffers can lie below or above it.
FirstSlot == (NumSlots + 1) \div 2

Init ==
    /\ pool = NoPool
    /\ \E size \in FixedSizes, count \in 0..MaxElementCount :
           mgrs = (TheManager :>
                     FixedMemoryManager(size, count, Base(FirstSlot)))
    /\ sys = {}
    /\ held = {}
    /\ last = NoCall
    /\ log = <<>>
    /\ status = "ok"
    /\ NoFacade

Allocate == ManagerAllocate(TheManager, 0, Slots)

Deallocate == \E h \in held : ManagerDeallocate(TheManager, h)

Next == Unlogged(Allocate) \/ Unlogged(Deallocate)

Spec == Init /\ [][Next]_vars

\* The same manager with the calls logged, for properties of a call sequence.
NextScenario == Logged(Allocate) \/ Logged(Deallocate)

SpecScenario == Init /\ [][NextScenario]_vars

\* The manager on a heap with room for one more buffer only.
TightSlots == FirstSlot..(FirstSlot + 1)

AllocateTight == ManagerAllocate(TheManager, 0, TightSlots)

NextTight == Unlogged(AllocateTight) \/ Unlogged(Deallocate)

SpecTight == Init /\ [][NextTight]_vars

\* The manager also handed pointers that are not its own.
DeallocateForeign == ManagerDeallocateForeign(TheManager, Slots)

NextForeign ==
    Unlogged(Allocate) \/ Unlogged(Deallocate) \/ Unlogged(DeallocateForeign)

SpecForeign == Init /\ [][NextForeign]_vars

\* The manager with its per-pool element count read and set between calls,
\* on the heap with room for one more buffer.
GetCount == ManagerGetCount(TheManager)

ConfigCounts == {0, MaxElementCount}

SetCount == \E count \in ConfigCounts : ManagerSetCount(TheManager, count)

NextConfig ==
    \/ Unlogged(AllocateTight)
    \/ Unlogged(Deallocate)
    \/ Unlogged(GetCount)
    \/ Unlogged(SetCount)

SpecConfig == Init /\ [][NextConfig]_vars

\* ------------------------------------------------ a DynamicMemoryManager

\* The heap of a DynamicMemoryManager: the five first buffers lie side by
\* side, with a free slot below and above them.
DynSlots == 1..(Len(Classes) + 2)

DynBases == [i \in 1..Len(Classes) |-> Base(i + 1)]

InitDyn ==
    /\ pool = NoPool
    /\ \E count \in 0..MaxElementCount :
           mgrs = DynamicMemoryManager(count, count, count, count, count,
                                       DynBases)
    /\ sys = {}
    /\ held = {}
    /\ last = NoCall
    /\ log = <<>>
    /\ status = "ok"
    /\ NoFacade

\* On a manager just constructed: p = allocate(s) and then deallocate(p, s),
\* for every size s
RouteAllocate ==
    /\ last = NoCall
    /\ \E size \in 0..MaxSize : DynamicAllocate(size, DynSlots)

RouteDeallocate == \E h \in held : DynamicDeallocate(h)

NextRoute == Unlogged(RouteAllocate) \/ Unlogged(RouteDeallocate)

SpecRoute == InitDyn /\ [][NextRoute]_vars

\* Requests of a few sizes, the calls logged.
DynSizes == {10, SIZE256 + 1}

DynAllocate == \E size \in DynSizes : DynamicAllocate(size, DynSlots)

DynDeallocate == \E h \in held : DynamicDeallocate(h)

NextDyn == Logged(DynAllocate) \/ Logged(DynDeallocate)

SpecDyn == InitDyn /\ [][NextDyn]_vars

\* ---------------------------------------------------- GlobalMemoryManager

Threads == 1..MaxThreads

\* The memory the calls of the allocation classes work on.
memory == <<pool, mgrs, sys, held, last, status>>

\* The frame of a thread: where it is in its call of GlobalMemoryManager
\* (pc), the call and its arguments, the g_globalMemoryControl it read
\* (self), the pointer it got from allocate and still has to give back, and
\* the cycles it has finished.
NoFrame ==
    [ pc |-> "idle", op |-> "none", size |-> 0, class |-> "none", count |-> 0,
      self |-> NULL, ptr |-> NULL, cycles |-> 0 ]

\* Where initGlobalMemory's std::malloc puts the DynamicMemoryManager.
InstanceBase == Base(Len(Classes) + 3)

GlobalSizes == {10}

GlobalClasses == {"m_memory16"}

GlobalCounts == {0}

\* The calls a thread can make next: deallocate(p, s) of what it got from
\* allocate(s), else allocate(s) or a pool element count getter or setter.
\* The arguments are the thread's own and are fixed here at the latest.
Calls(f) ==
    IF f.ptr # NULL
    THEN { [f EXCEPT !.op = "deallocate"] }
    ELSE { [f EXCEPT !.op = "allocate", !.size = sz] : sz \in GlobalSizes }
         \cup { [f EXCEPT !.op = "get", !.class = k] : k \in GlobalClasses }
         \cup { [f EXCEPT !.op = "set", !.class = k, !.count = n]
                  : k \in GlobalClasses, n \in GlobalCounts }

\* A thread calls GlobalMemoryManager: the next call of its cycles.
Call(t) ==
    /\ status = "ok"
    /\ threads[t].pc = "idle"
    /\ threads[t].cycles < MaxCycles
    /\ threads' = [threads EXCEPT ![t].pc = "lock"]
    /\ UNCHANGED <<memory, log, result, array, logSystem, memoryPool,
                   g_globalMemoryControl,
                   g_initGlobalMemoryFlag, g_globalMemoryControlMutex>>

\* LockGuard without the wait for the mutex.
LockGuardFree(t) ==
    /\ status = "ok"
    /\ threads[t].pc = "lock"
    /\ g_globalMemoryControlMutex' = t
    /\ \E f \in Calls(threads[t]) :
           threads' = [threads EXCEPT ![t] = [f EXCEPT !.pc = "call_once"]]
    /\ UNCHANGED <<memory, log, result, array, logSystem, memoryPool,
                   g_globalMemoryControl,
                   g_initGlobalMemoryFlag>>

\* std::lock_guard<std::mutex> lock(g_globalMemoryControlMutex)
LockGuard(t) ==
    /\ status = "ok"
    /\ threads[t].pc = "lock"
    /\ g_globalMemoryControlMutex = 0
    /\ g_globalMemoryControlMutex' = t
    /\ \E f \in Calls(threads[t]) :
           threads' = [threads EXCEPT ![t] = [f EXCEPT !.pc = "call_once"]]
    /\ UNCHANGED <<memory, log, result, array, logSystem, memoryPool,
                   g_globalMemoryControl,
                   g_initGlobalMemoryFlag>>

\* CallOnceBegin that does not look at the flag.
CallOnceBeginAlways(t) ==
    /\ status = "ok"
    /\ threads[t].pc = "call_once"
    /\ g_initGlobalMemoryFlag' = "active"
    /\ threads' = [threads EXCEPT ![t].pc = "init"]
    /\ UNCHANGED <<memory, log, result, array, logSystem, memoryPool,
                   g_globalMemoryControl,
                   g_globalMemoryControlMutex>>

\* std::call_once(g_initGlobalMemoryFlag, initGlobalMemory) with the flag
\* not set and no call active: this thread runs initGlobalMemory.
CallOnceBegin(t) ==
    /\ status = "ok"
    /\ threads[t].pc = "call_once"
    /\ g_initGlobalMemoryFlag = "unset"
    /\ g_initGlobalMemoryFlag' = "active"
    /\ threads' = [threads EXCEPT ![t].pc = "init"]
    /\ UNCHANGED <<memory, log, result, array, logSystem, memoryPool,
                   g_globalMemoryControl,
                   g_globalMemoryControlMutex>>

\* std::call_once with the flag set: it returns at once.  While another
\* thread's call is active it waits.
CallOncePass(t) ==
    /\ status = "ok"
    /\ threads[t].pc = "call_once"
    /\ g_initGlobalMemoryFlag = "set"
    /\ threads' = [threads EXCEPT ![t].pc = "delegate"]
    /\ UNCHANGED <<memory, log, result, array, logSystem, memoryPool,
                   g_globalMemoryControl,
                   g_initGlobalMemoryFlag, g_globalMemoryControlMutex>>

\* initGlobalMemory() run by call_once, which sets the flag when it
\* returns.  The log keeps every completed construction.
initGlobalMemory(t) ==
    /\ status = "ok"
    /\ threads[t].pc = "init"
    /\ Len(log) < MaxLog
    /\ mgrs' = DynamicMemoryManager(INIT_COUNT16, INIT_COUNT32, INIT_COUNT64,
                                    INIT_COUNT128, INIT_COUNT256, DynBases)
    /\ g_globalMemoryControl' = InstanceBase
    /\ g_initGlobalMemoryFlag' = "set"
    /\ log' = Append(log, [NoCall EXCEPT !.op = "initGlobalMemory",
                                         !.ptr = InstanceBase])
    /\ threads' = [threads EXCEPT ![t].pc = "delegate"]
    /\ UNCHANGED <<pool, sys, held, last, status, result, array, logSystem, memoryPool,
                   g_globalMemoryControlMutex>>

\* Enter with the lock given up before the delegate call.
EnterReleasing(t) ==
    /\ status = "ok"
    /\ threads[t].pc = "delegate"
    /\ g_globalMemoryControlMutex' = 0
    /\ threads' = [threads EXCEPT ![t].pc = "inside",
                                  ![t].self = g_globalMemoryControl]
    /\ UNCHANGED <<memory, log, result, array, logSystem, memoryPool,
                   g_globalMemoryControl,
                   g_initGlobalMemoryFlag>>

\* g_globalMemoryControl is read and the call of the DynamicMemoryManager
\* it points to begins.
Enter(t) ==
    /\ status = "ok"
    /\ threads[t].pc = "delegate"
    /\ threads' = [threads EXCEPT ![t].pc = "inside",
                                  ![t].self = g_globalMemoryControl]
    /\ UNCHANGED <<memory, log, result, array, logSystem, memoryPool,
                   g_globalMemoryControl,
                   g_initGlobalMemoryFlag, g_globalMemoryControlMutex>>

\* The call of the DynamicMemoryManager runs and returns, or ends the
\* program, or hangs with the thread inside it.
ReturnWith(t, slots) ==
    /\ status = "ok"
    /\ threads[t].pc = "inside"
    /\ LET f == threads[t]
       IN  IF f.self = NULL
           THEN Crashed([NoCall EXCEPT !.op = f.op])
           ELSE CASE f.op = "allocate" -> DynamicAllocate(f.size, slots)
                  [] f.op = "deallocate" ->
                       \E h \in held : h.ptr = f.ptr /\ DynamicDeallocate(h)
                  [] f.op = "get" -> ManagerGetCount(f.class)
                  [] f.op = "set" -> ManagerSetCount(f.class, f.count)
    /\ threads' = [threads EXCEPT
                     ![t].pc = IF status' = "ok" THEN "unlock" ELSE "inside",
                     ![t].ptr = IF status' # "ok" THEN @
                                ELSE IF threads[t].op = "allocate"
                                THEN last'.ptr
                                ELSE IF threads[t].op = "deallocate"
                                THEN NULL ELSE @]
    /\ UNCHANGED <<log, result, array, logSystem, memoryPool,
                   g_globalMemoryControl,
                   g_initGlobalMemoryFlag, g_globalMemoryControlMutex>>

\* The delegate call while std::malloc serves the slots of DynSlots.
Return(t) == ReturnWith(t, DynSlots)

\* The lock_guard's destructor at the end of the call.  A cycle is over
\* with deallocate, with a getter or setter, or with an allocate that gave
\* no pointer.
Unlock(t) ==
    /\ status = "ok"
    /\ threads[t].pc = "unlock"
    /\ g_globalMemoryControlMutex' = 0
    /\ threads' = [threads EXCEPT
                     ![t] = [NoFrame EXCEPT
                               !.ptr = threads[t].ptr,
                               !.size = IF threads[t].ptr # NULL
                                        THEN threads[t].size ELSE 0,
                               !.cycles = IF threads[t].op = "allocate"
                                             /\ threads[t].ptr # NULL
                                          THEN threads[t].cycles
                                          ELSE threads[t].cycles + 1]]
    /\ UNCHANGED <<memory, log, result, array, logSystem, memoryPool,
                   g_globalMemoryControl,
                   g_initGlobalMemoryFlag>>

InitGlobal ==
    /\ pool = NoPool
    /\ mgrs = <<>>
    /\ sys = {}
    /\ held = {}
    /\ last = NoCall
    /\ log = <<>>
    /\ status = "ok"
    /\ g_globalMemoryControl = NULL
    /\ g_initGlobalMemoryFlag = "unset"
    /\ g_globalMemoryControlMutex = 0
    /\ threads = [t \in Threads |-> NoFrame]
    /\ result = <<>>
    /\ NoLogSystem
    /\ memoryPool = <<>>
    /\ array = <<>>

NextGlobal ==
    \/ \E t \in Threads : Call(t)
    \/ \E t \in Threads : LockGuard(t)
    \/ \E t \in Threads : CallOnceBegin(t)
    \/ \E t \in Threads : CallOncePass(t)
    \/ \E t \in Threads : initGlobalMemory(t)
    \/ \E t \in Threads : Enter(t)
    \/ \E t \in Threads : Return(t)
    \/ \E t \in Threads : Unlock(t)

SpecGlobal == InitGlobal /\ [][NextGlobal]_vars

\* ------------------------------------------------------- Result<S, F>

\* The values of S (a U32) and of F (a Bool, as 0 and 1).
SValues == 0..MaxValue

FValues == {0, 1}

\* UValue(): the union holds its dummy member.
UValue == [member |-> "m_ready", bytes |-> 0]

\* Move(value): the value as an rvalue; assigning from it copies a scalar.
Move(value) == value

\* Result(S &&value)
ResultSuccess(value) ==
    [ m_value |-> [UValue EXCEPT !.member = "m_success", !.bytes = Move(value)],
      m_state |-> "SUCCESS" ]

\* Result(F &&value)
ResultFailur(value) ==
    [ m_value |-> [UValue EXCEPT !.member = "m_failur", !.bytes = Move(value)],
      m_state |-> "FAILUR" ]

\* Bool IsSuccess()
IsSuccess(r) == r.m_state = "SUCCESS"

\* Bool IsFailur()
IsFailur(r) == r.m_state = "FAILUR"

\* Bool IsSuccess(S &value): what it returns and what value holds after.
IsSuccessOut(r, value) ==
    IF IsSuccess(r)
    THEN [ret |-> TRUE, value |-> Move(r.m_value.bytes)]
    ELSE [ret |-> FALSE, value |-> value]

\* IsFailurOut that stores the union's content whatever the state.
IsFailurOutWrites(r, value) ==
    [ret |-> IsFailur(r), value |-> Move(r.m_value.bytes)]

\* Bool IsFailur(F &value): what it returns and what value holds after.
IsFailurOut(r, value) ==
    IF IsFailur(r)
    THEN [ret |-> TRUE, value |-> Move(r.m_value.bytes)]
    ELSE [ret |-> FALSE, value |-> value]

\* A Result built from a value (kind and from say which), with the two
\* variables of its caller that IsSuccess and IsFailur store into.
InitResult ==
    /\ pool = NoPool
    /\ mgrs = <<>>
    /\ sys = {}
    /\ held = {}
    /\ last = NoCall
    /\ log = <<>>
    /\ status = "ok"
    /\ g_globalMemoryControl = NULL
    /\ g_initGlobalMemoryFlag = "unset"
    /\ g_globalMemoryControlMutex = 0
    /\ threads = <<>>
    /\ array = <<>>
    /\ NoLogSystem
    /\ memoryPool = <<>>
    /\ \E s0 \in SValues, f0 \in FValues :
           \/ \E v \in SValues :
                 result = [ obj |-> ResultSuccess(v), kind |-> "success",
                            from |-> v, success |-> s0, failur |-> f0,
                            op |-> "none", ret |-> FALSE ]
           \/ \E v \in FValues :
                 result = [ obj |-> ResultFailur(v), kind |-> "failur",
                            from |-> v, success |-> s0, failur |-> f0,
                            op |-> "none", ret |-> FALSE ]

\* ret = result.IsSuccess(success)
CallIsSuccess ==
    /\ LET o == IsSuccessOut(result.obj, result.success)
       IN  result' = [result EXCEPT !.op = "IsSuccess", !.ret = o.ret,
                                    !.success = o.value]
    /\ UNCHANGED <<memory, log, g_globalMemoryControl, g_initGlobalMemoryFlag,
                   g_globalMemoryControlMutex, threads, array, logSystem,
                   memoryPool>>

\* ret = result.IsFailur(failur)
CallIsFailur ==
    /\ LET o == IsFailurOut(result.obj, result.failur)
       IN  result' = [result EXCEPT !.op = "IsFailur", !.ret = o.ret,
                                    !.failur = o.value]
    /\ UNCHANGED <<memory, log, g_globalMemoryControl, g_initGlobalMemoryFlag,
                   g_globalMemoryControlMutex, threads, array, logSystem,
                   memoryPool>>

NextResult == CallIsSuccess \/ CallIsFailur

SpecResult == InitResult /\ [][NextResult]_vars

\* -------------------------------------------------------------- Array<T>

\* An element of a buffer that was never assigned: allocate() gives
\* uninitialised storage.
Indeterminate == 0

ArrayValues == {1, 2}

ArrayLengths == {1, INIT_LENGTH}

\* a < b for two USize values; a negative number k stands for 2^64 + k, the
\* value a subtraction below 0 wraps to.
USizeLess(a, b) ==
    IF (a < 0) = (b < 0) THEN a < b ELSE b < 0

\* Array(length): m_buffer holds m_length elements, the first m_count of
\* them in use.  The buffer is a sequence; element i of the source is
\* m_buffer[i + 1].
Array(length) ==
    [ m_length |-> length,
      m_count |-> 0,
      m_buffer |-> [i \in 1..length |-> Indeterminate],
      state |-> "ok" ]

\* moveElements(oldBuffer, fromIndex, newBuffer, toIndex, count): the new
\* buffer after  for (i = toIndex, j = fromIndex; i < count; i++, j++)
\* newBuffer[i] = oldBuffer[j].
moveElements(oldBuffer, fromIndex, newBuffer, toIndex, count) ==
    [ i \in 1..Len(newBuffer) |->
        IF toIndex <= i - 1 /\ i - 1 < count
        THEN oldBuffer[(i - 1) - toIndex + fromIndex + 1]
        ELSE newBuffer[i] ]

\* moveElementsRev(buffer, fromIndex, buffer, toIndex, count) as insert
\* calls it, with toIndex = fromIndex + 1: the buffer after
\* for (i = toIndex + count - 1, j = fromIndex + count - 1; i >= toIndex;
\* i--, j--) buffer[i] = buffer[j].
moveElementsRev(buffer, fromIndex, toIndex, count) ==
    [ i \in 1..Len(buffer) |->
        IF toIndex <= i - 1 /\ i - 1 <= toIndex + count - 1
        THEN buffer[(i - 1) - toIndex + fromIndex + 1]
        ELSE buffer[i] ]

\* expandBuffer(): a buffer twice as long with the elements in use moved
\* over.
expandBuffer(a) ==
    LET newLength == a.m_length * 2
        newBuffer == [i \in 1..newLength |-> Indeterminate]
    IN  [a EXCEPT !.m_length = newLength,
                  !.m_buffer = moveElements(a.m_buffer, 0, newBuffer, 0,
                                            a.m_count)]

\* reducedBuffer(): a buffer half as long with the elements in use moved
\* over.
reducedBuffer(a) ==
    LET newLength == a.m_length \div 2
        newBuffer == [i \in 1..newLength |-> Indeterminate]
    IN  [a EXCEPT !.m_length = newLength,
                  !.m_buffer = moveElements(a.m_buffer, 0, newBuffer, 0,
                                            a.m_count)]

\* A call's outcome: the array after it and whether it threw
\* BufferOverException.  A write outside the buffer leaves the array in
\* state "corrupt" and is followed no further.
Thrown(a) == [array |-> a, threw |-> TRUE]

Done(a) == [array |-> a, threw |-> FALSE]

Corrupt(a) == [array |-> [a EXCEPT !.state = "corrupt"], threw |-> FALSE]

\* Array::operator[](index)
at(a, index) ==
    IF ~USizeLess(index, a.m_count) THEN Thrown(a)
    ELSE IF index >= a.m_length THEN Corrupt(a)
    ELSE Done(a)

\* Array::push(value)
push(a, value) ==
    LET b == IF a.m_count = a.m_length THEN expandBuffer(a) ELSE a
    IN  IF b.m_count < 0 \/ b.m_count >= b.m_length THEN Corrupt(a)
        ELSE Done([b EXCEPT !.m_buffer[b.m_count + 1] = value,
                            !.m_count = b.m_count + 1])

\* Array::insert(index, value).  The test on its first line throws for
\* index < m_count and lets every other index through.
insert(a, index, value) ==
    IF USizeLess(index, a.m_count) THEN Thrown(a)
    ELSE LET b == IF a.m_count = a.m_length THEN expandBuffer(a) ELSE a
             highest == IF b.m_count >= 1 THEN index + b.m_count ELSE index
         IN  IF highest >= b.m_length THEN Corrupt(a)
             ELSE Done([b EXCEPT
                          !.m_buffer =
                              [moveElementsRev(b.m_buffer, index, index + 1,
                                               b.m_count)
                                 EXCEPT ![index + 1] = value],
                          !.m_count = b.m_count + 1])

\* Array::removeAt(index).  The test on its first line throws for
\* index < m_count and lets every other index through; m_count -= 1 wraps
\* at 0.
removeAt(a, index) ==
    IF USizeLess(index, a.m_count) THEN Thrown(a)
    ELSE LET moved == [a EXCEPT
                         !.m_buffer = moveElements(a.m_buffer, index + 1,
                                                   a.m_buffer, index,
                                                   a.m_count),
                         !.m_count = a.m_count - 1]
         IN  IF USizeLess(moved.m_count, moved.m_length \div 2)
             THEN Done(reducedBuffer(moved))
             ELSE Done(moved)

\* The array with the call just made on it.
ArrayCall(op, index, o) ==
    /\ array' = [ obj |-> o.array, op |-> op, index |-> index,
                  threw |-> o.threw ]
    /\ UNCHANGED <<memory, log, g_globalMemoryControl, g_initGlobalMemoryFlag,
                   g_globalMemoryControlMutex, threads, result,
                   logSystem, memoryPool>>

InitArray ==
    /\ pool = NoPool
    /\ mgrs = <<>>
    /\ sys = {}
    /\ held = {}
    /\ last = NoCall
    /\ log = <<>>
    /\ status = "ok"
    /\ g_globalMemoryControl = NULL
    /\ g_initGlobalMemoryFlag = "unset"
    /\ g_globalMemoryControlMutex = 0
    /\ threads = <<>>
    /\ result = <<>>
    /\ NoLogSystem
    /\ memoryPool = <<>>
    /\ \E length \in ArrayLengths :
           array = [ obj |-> Array(length), op |-> "Array", index |-> 0,
                     threw |-> FALSE ]

CallAt ==
    /\ array.obj.state = "ok"
    /\ \E index \in 0..MaxIndex : ArrayCall("at", index, at(array.obj, index))

CallPush ==
    /\ array.obj.state = "ok"
    /\ array.obj.m_count <= MaxIndex
    /\ \E value \in ArrayValues : ArrayCall("push", 0, push(array.obj, value))

CallInsert ==
    /\ array.obj.state = "ok"
    /\ \E index \in 0..MaxIndex, value \in ArrayValues :
           ArrayCall("insert", index, insert(array.obj, index, value))

CallRemoveAt ==
    /\ array.obj.state = "ok"
    /\ \E index \in 0..MaxIndex :
           ArrayCall("removeAt", index, removeAt(array.obj, index))

NextArray == CallAt \/ CallPush \/ CallInsert \/ CallRemoveAt

SpecArray == InitArray /\ [][NextArray]_vars

\* ------------------------------------------------------------ properties

PoolIds(m) == { m.poolList[i].bufferPointer : i \in 1..Len(m.poolList) }

PoolOf(m, id) ==
    m.poolList[CHOOSE i \in 1..Len(m.poolList) :
                   m.poolList[i].bufferPointer = id]

\* C1: a FixedMemoryManager owns at least one pool after any sequence of
\* allocate() and deallocate() calls; its last pool is kept even when all
\* of its elements are free.
AtLeastOnePool ==
    \A k \in DOMAIN mgrs :
        mgrs[k].poolCount >= 1 /\ Len(mgrs[k].poolList) >= 1

\* C2: the allocation target m_allocPool is always one of the pools in the
\* manager's list, and no allocate() is served by a pool that was removed.
TargetIsMember ==
    /\ status # "corrupt"
    /\ \A k \in DOMAIN mgrs : TargetIndex(mgrs[k]) # 0

\* The index (from 1) of the rightmost pool whose minimum address is at
\* most ptr, 0 when there is none.
Rightmost(list, ptr) ==
    LET upTo == { i \in 1..Len(list) : list[i].bufferAddressMin <= ptr }
    IN  IF upTo = {} THEN 0 ELSE CHOOSE i \in upTo : \A j \in upTo : j <= i

\* C3: for every number of pools, deallocate(p) of a held pointer ends in
\* the rightmost pool whose minimum address is at most p, which is the pool
\* that handed p out; that pool's free count rises by one (the pool may
\* then be removed) and every other pool is left as it was.
DeallocateFreesInOwner ==
    [][ last'.op = "deallocate" =>
          /\ status' = "ok"
          /\ LET m == mgrs[last'.class]
                 after == mgrs'[last'.class]
                 i == Rightmost(m.poolList, last'.ptr)
                 owner == m.poolList[i]
             IN  /\ i # 0
                 /\ \E h \in held : h.ptr = last'.ptr
                                    /\ h.pool = owner.bufferPointer
                 /\ last'.pool = owner.bufferPointer
                 /\ \A j \in 1..Len(m.poolList) :
                        j # i => \E n \in 1..Len(after.poolList) :
                                     after.poolList[n] = m.poolList[j]
                 /\ IF last'.removed
                    THEN /\ owner.freeElementCount + 1 = owner.elementCount
                         /\ Len(after.poolList) = Len(m.poolList) - 1
                    ELSE /\ owner.bufferPointer \in PoolIds(after)
                         /\ PoolOf(after, owner.bufferPointer).freeElementCount
                              = owner.freeElementCount + 1
      ]_vars

\* C4: the pool list of a manager is sorted by strictly ascending minimum
\* buffer address after any sequence of allocate() and deallocate() calls.
PoolListSorted ==
    \A k \in DOMAIN mgrs :
        \A i \in 1..(Len(mgrs[k].poolList) - 1) :
            managedAddresMin(mgrs[k].poolList[i])
              < managedAddresMin(mgrs[k].poolList[i + 1])

\* Pools were added on both sides of the first one and a pool has just
\* been removed from a list of three.
SortedAfterInsertAndRemove ==
    /\ status = "ok"
    /\ last.op = "deallocate"
    /\ last.removed
    /\ \E k \in DOMAIN mgrs :
           /\ Len(mgrs[k].poolList) >= 2
           /\ Base(FirstSlot) \in PoolIds(mgrs[k])
           /\ last.pool < Base(FirstSlot)

\* C5: a MemoryPool used with pointers it handed out never returns from
\* allocate() an element that is still held, and what it returns is the
\* start of an element of its buffer.
PoolHandsOutDistinct ==
    [][ (last'.op = "pool.allocate" /\ last'.ptr # NULL) =>
          /\ \A h \in held : h.ptr # last'.ptr
          /\ last'.ptr \in Elements(pool)
      ]_vars

\* allocate() has just handed out again an element that was freed, while
\* another element is held.
PoolReusesFreed ==
    /\ last.op = "pool.allocate"
    /\ Cardinality(held) >= 2
    /\ \E h \in held : h.ptr < last.ptr

\* C6: whenever every pointer a MemoryPool handed out has been given back,
\* in any order, its free count is its capacity and its free list holds
\* every element.
PoolRoundTrip ==
    (pool # NoPool /\ held = {}) =>
        /\ freeMemoryElementCount(pool) = memoryElementCount(pool)
        /\ FreeSet(pool) = Elements(pool)

\* All elements were handed out and given back in an order that leaves the
\* lowest element on top of the free list.
PoolAllGivenBack ==
    /\ pool # NoPool
    /\ held = {}
    /\ last.op = "pool.deallocate"
    /\ pool.elementCount >= 2
    /\ pool.freeElementListTop = pool.bufferPointer

\* The smallest class that holds a request of the given size, "system" when
\* the request is larger than every class.
SmallestClass(size) ==
    LET fit == { i \in 1..Len(Classes) : ClassSize[i] >= size }
    IN  IF fit = {} THEN "system"
        ELSE Classes[CHOOSE i \in fit :
                         \A j \in fit : ClassSize[i] <= ClassSize[j]]

\* C7: DynamicMemoryManager::allocate(size) is served by the manager of the
\* smallest class that is >= size, and for a size above 256 by the system
\* allocator with no pool touched.
RoutesToSmallestClass ==
    [][ last'.op = "allocate" =>
          /\ last'.class = SmallestClass(last'.size)
          /\ last'.size > SIZE256 =>
                 mgrs' = mgrs /\ last'.ptr \in sys' \ sys
          /\ (last'.size <= SIZE256 /\ status' = "ok") =>
                 /\ last'.pool \in PoolIds(mgrs'[last'.class])
                 /\ LET pl == PoolOf(mgrs'[last'.class], last'.pool)
                    IN  last'.ptr \in Elements(pl) \ FreeSet(pl)
      ]_vars

\* A request of 17 bytes was served by the 32-byte class.
RoutedAboveBoundary ==
    /\ status = "ok"
    /\ last.op = "allocate"
    /\ last.size = SIZE16 + 1
    /\ last.class = "m_memory32"

\* C8: DynamicMemoryManager::deallocate(p, s) goes to the class manager (or
\* to the system allocator) that allocate(s) took p from.
DeallocateSameClass ==
    [][ last'.op = "deallocate" =>
          \E h \in held : /\ h.ptr = last'.ptr
                          /\ h.size = last'.size
                          /\ h.class = last'.class
                          /\ last'.class = "system" => h.ptr \notin sys'
                          /\ (last'.class # "system" /\ status' = "ok") =>
                                 last'.pool = h.pool
      ]_vars

\* A pointer asked for with 33 bytes went back to the 64-byte class.
GivenBackAboveBoundary ==
    /\ status = "ok"
    /\ last.op = "deallocate"
    /\ last.size = SIZE32 + 1
    /\ last.class = "m_memory64"

\* The first c + 1 calls were allocate() and the next c were deallocate()
\* of the pointers the first c calls returned.
EvictionPrefix(c) ==
    /\ Len(log) >= 2 * c + 1
    /\ \A i \in 1..(c + 1) : log[i].op = "allocate"
    /\ \A i \in (c + 2)..(2 * c + 1) :
           /\ log[i].op = "deallocate"
           /\ log[i].ptr \in { log[j].ptr : j \in 1..c }

\* C9: with pools of c elements, after c + 1 allocate() calls and the
\* deallocate() of the c elements of the first pool, the first pool is no
\* longer in the list and the second is, with its element in use; every
\* allocate() after that returns an element of a pool that is in the list.
EvictionScenario ==
    status # "crashed" =>
        LET m == mgrs[TheManager]
            c == IF m.elementCount < 1 THEN 1 ELSE m.elementCount
        IN  EvictionPrefix(c) =>
              /\ Len(log) = 2 * c + 1 =>
                     /\ status = "ok"
                     /\ PoolIds(m) = {log[c + 1].pool}
                     /\ log[1].pool # log[c + 1].pool
                     /\ log[c + 1].ptr
                          \notin FreeSet(PoolOf(m, log[c + 1].pool))
              /\ (Len(log) > 2 * c + 1 /\ last.op = "allocate") =>
                     /\ status = "ok"
                     /\ last.pool \in PoolIds(m)
                     /\ last.ptr \in Elements(PoolOf(m, last.pool))

\* C10: with 2 elements per pool, three allocate(10) calls are served by
\* the 16-byte class, two by its first pool and the third by a pool added
\* for it; after deallocate(p, 10) of the three pointers in any order the
\* first pool is gone and the 16-byte manager owns exactly one pool.
EndToEndScenario ==
    ( /\ status # "crashed"
      /\ Len(log) = 6
      /\ \A i \in 1..3 : log[i].op = "allocate" /\ log[i].size = 10
      /\ \A i \in 4..6 : log[i].op = "deallocate" /\ log[i].size = 10
      /\ mgrs["m_memory16"].elementCount = 2 )
    => LET m == mgrs["m_memory16"]
       IN  /\ \A i \in 1..3 : log[i].class = "m_memory16"
           /\ log[1].pool = DynBases[1] /\ ~log[1].grew
           /\ log[2].pool = DynBases[1] /\ ~log[2].grew
           /\ log[3].pool # DynBases[1] /\ log[3].grew
           /\ status = "ok"
           /\ m.poolCount = 1
           /\ Len(m.poolList) = 1
           /\ DynBases[1] \notin PoolIds(m)

\* C15: allocate(size) through DynamicMemoryManager either returns a
\* pointer that is not null or fails with MemoryException; a request above
\* 256 bytes the system allocator cannot serve fails with the exception and
\* never returns the null pointer.
AllocateNeverNull ==
    (status = "ok" /\ last.op = "allocate")
        => (last.ptr # NULL \/ last.exception)

\* C16: when FixedMemoryManager::allocate() has to grow (its target pool
\* has no free element) and the buffer of the new pool cannot be obtained,
\* the call fails with MemoryException and the manager is as before the
\* call: same pool list, pool count, target and free lists.
GrowthFailureLeavesManager ==
    [][ (last'.op = "allocate" /\ last'.exception) =>
          /\ mgrs' = mgrs
          /\ held' = held
          /\ sys' = sys
          /\ LET m == mgrs[last'.class]
             IN  /\ TargetIndex(m) # 0
                 /\ freeMemoryElementCount(m.poolList[TargetIndex(m)]) = 0
      ]_vars

\* C16 happens: with both places of the heap taken by full pools, an
\* allocate() has ended with the exception.
GrowthFailed ==
    /\ last.op = "allocate"
    /\ last.exception
    /\ mgrs[TheManager].poolCount = 2
    /\ \A i \in 1..2 : freeMemoryElementCount(mgrs[TheManager].poolList[i]) = 0

\* C17: FixedMemoryManager::deallocate(p) with p outside the address range
\* of every pool of the manager, the null pointer included, leaves pool
\* list, pool count, target and every pool's free list and free count as
\* they were, in every reachable state.
ForeignPointerAbsorbed ==
    [][ last'.op = "deallocate foreign" => mgrs' = mgrs ]_vars

\* C18: setting the per-pool element count changes none of the existing
\* pools, nor the pool list or the target; only the setter changes the
\* setting, and the next pool growth creates has max(1, count) elements.
SetterOnlyLaterPools ==
    [][ LET k == last'.class
            Max1(n) == IF n < 1 THEN 1 ELSE n
        IN  /\ last'.op = "set" =>
                /\ mgrs'[k].poolList = mgrs[k].poolList
                /\ mgrs'[k].poolCount = mgrs[k].poolCount
                /\ mgrs'[k].allocPool = mgrs[k].allocPool
                /\ poolManagedElementCount(mgrs'[k]) = Max1(last'.size)
            /\ (last'.op = "allocate" /\ status' # "crashed") =>
                poolManagedElementCount(mgrs'[k])
                    = poolManagedElementCount(mgrs[k])
            /\ (last'.op = "allocate" /\ last'.grew /\ status' # "crashed") =>
                /\ memoryElementCount(PoolOf(mgrs'[k], last'.pool))
                       = Max1(poolManagedElementCount(mgrs[k]))
                /\ last.op = "set" =>
                       memoryElementCount(PoolOf(mgrs'[k], last'.pool))
                           = Max1(last.size)
      ]_vars

\* C18 happens: after the count was set, growth has made a pool of the new
\* capacity next to a pool that kept the capacity it was made with.
GrewWithNewCount ==
    /\ status = "ok"
    /\ last.op = "allocate"
    /\ last.grew
    /\ \E id \in PoolIds(mgrs[TheManager]) :
           /\ id # last.pool
           /\ memoryElementCount(PoolOf(mgrs[TheManager], id))
                  # memoryElementCount(PoolOf(mgrs[TheManager], last.pool))
           /\ freeMemoryElementCount(PoolOf(mgrs[TheManager], id)) = 0

\* C19: poolManagedElementCount() returns a value of at least 1, after
\* construction with any count and after any call of the setter: it is
\* max(1, count) for the count last asked for.
GetterAtLeastOne ==
    /\ \A k \in DOMAIN mgrs : poolManagedElementCount(mgrs[k]) >= 1
    /\ last.op = "get" => last.size >= 1

\* The positions of a call at which the thread is past the lock_guard.
PastLock == {"call_once", "init", "delegate", "inside", "unlock"}

\* C11: no two calls of GlobalMemoryManager (allocate, deallocate, a pool
\* element count getter or setter) are inside the DynamicMemoryManager at
\* the same time: the thread inside it holds the mutex.
MutualExclusion ==
    \A t1 \in DOMAIN threads :
        threads[t1].pc = "inside" =>
            /\ g_globalMemoryControlMutex = t1
            /\ \A t2 \in DOMAIN threads \ {t1} : threads[t2].pc \notin PastLock

\* C11 happens: a thread is inside the DynamicMemoryManager while another
\* has called and waits for the mutex.
WaitsWhileInside ==
    \E t1, t2 \in DOMAIN threads :
        /\ t1 # t2
        /\ threads[t1].pc = "inside"
        /\ threads[t2].pc = "lock"

InUse(pl) == memoryElementCount(pl) - freeMemoryElementCount(pl)

\* The free list holds as many elements as the free count says, none twice.
WellFormed(pl) ==
    /\ Len(FreeList(pl)) = freeMemoryElementCount(pl)
    /\ Cardinality(FreeSet(pl)) = Len(FreeList(pl))

AllFinished ==
    \A t \in DOMAIN threads :
        threads[t].pc = "idle" /\ threads[t].cycles = MaxCycles

\* C13: N threads each run M cycles of p = allocate(s), deallocate(p, s)
\* through GlobalMemoryManager, in any interleaving; the run ends with every
\* thread finished, no element of any pool in use and every free list well
\* formed.
CyclesLeaveNothing ==
    (threads # <<>> /\ (AllFinished \/ status # "ok")) =>
        /\ status = "ok"
        /\ \A k \in DOMAIN mgrs : \A i \in 1..Len(mgrs[k].poolList) :
               /\ InUse(mgrs[k].poolList[i]) = 0
               /\ WellFormed(mgrs[k].poolList[i])

\* C14 as stated: a call first makes sure the facade is ready, then takes
\* the lock, then delegates, the lock held until the delegate call is over.
ReadyThenLock ==
    [][ \A t \in DOMAIN threads :
          /\ (threads[t].pc = "lock" /\ threads'[t].pc # "lock") =>
                 g_initGlobalMemoryFlag = "set"
          /\ threads'[t].pc \in {"delegate", "inside", "unlock"} =>
                 /\ g_globalMemoryControlMutex' = t
                 /\ g_initGlobalMemoryFlag' = "set"
      ]_vars

\* C14 amended: a call first takes the lock, then makes sure the facade is
\* ready (the construction runs under the lock), then delegates, the lock
\* held until the delegate call is over.
LockThenReady ==
    [][ \A t \in DOMAIN threads :
          /\ (threads[t].pc = "lock" /\ threads'[t].pc # "lock") =>
                 threads'[t].pc = "call_once"
          /\ threads'[t].pc \in PastLock => g_globalMemoryControlMutex' = t
          /\ threads'[t].pc \in {"idle", "lock"} =>
                 g_globalMemoryControlMutex' # t
          /\ threads'[t].pc \in {"delegate", "inside", "unlock"} =>
                 g_initGlobalMemoryFlag' = "set"
          /\ g_initGlobalMemoryFlag' # g_initGlobalMemoryFlag =>
                 /\ g_globalMemoryControlMutex # 0
                 /\ g_globalMemoryControlMutex' = g_globalMemoryControlMutex
      ]_vars

\* C14 happens: a thread holds the lock and runs the construction.
ConstructsUnderLock ==
    \E t \in DOMAIN threads :
        /\ threads[t].pc = "init"
        /\ g_globalMemoryControlMutex = t
        /\ g_initGlobalMemoryFlag = "active"

\* C20: a Result built from a value is in exactly one of the states success
\* and failure.  Built from a success value, IsSuccess(out) returns true and
\* stores the value in out, IsFailur(out) returns false and leaves out as it
\* was; built from a failure value it is the other way round.
ResultOneState ==
    [][ /\ IsSuccess(result.obj) # IsFailur(result.obj)
        /\ IsSuccess(result.obj) <=> result.kind = "success"
        /\ result'.op = "IsSuccess" =>
               /\ result'.ret <=> result.kind = "success"
               /\ result'.success = IF result.kind = "success"
                                    THEN result.from ELSE result.success
               /\ result'.failur = result.failur
        /\ result'.op = "IsFailur" =>
               /\ result'.ret <=> result.kind = "failur"
               /\ result'.failur = IF result.kind = "failur"
                                   THEN result.from ELSE result.failur
               /\ result'.success = result.success
      ]_vars

\* C20 happens: IsFailur(out) has returned false on a Result built from a
\* success value that differs from out, after IsSuccess stored the value.
AskedBothWays ==
    /\ result.kind = "success"
    /\ result.op = "IsFailur"
    /\ ~result.ret
    /\ result.success = result.from
    /\ result.failur # result.from

FreeListSound ==
    LET fl == FreeList(pool)
    IN  /\ Len(fl) = freeMemoryElementCount(pool)
        /\ Cardinality(FreeSet(pool)) = Len(fl)
        /\ FreeSet(pool) \subseteq Elements(pool)
        /\ IF fl = <<>> THEN pool.freeElementListTop = NULL
           ELSE pool.mem[fl[Len(fl)]] = NULL
        /\ 0 <= freeMemoryElementCount(pool)
        /\ freeMemoryElementCount(pool) <= memoryElementCount(pool)

\* C25 happens: after allocations and a deallocation the pool is partly in
\* use, its list two or more nodes long.
PoolPartlyUsed ==
    /\ last.op = "pool.deallocate"
    /\ held # {}
    /\ Len(FreeList(pool)) >= 2
    /\ freeMemoryElementCount(pool) < memoryElementCount(pool)

\* C26: MemoryPool::allocate() on a pool with an empty free list returns
\* the null pointer and changes nothing; on any other pool it returns the
\* list head, lowers the free count by one and makes the head's successor
\* the head.
PoolAllocateEffect ==
    [][ last'.op = "pool.allocate" =>
          IF pool.freeElementListTop = NULL
          THEN /\ last'.ptr = NULL
               /\ pool' = pool
               /\ freeMemoryElementCount(pool') = 0
               /\ pool'.freeElementListTop = NULL
          ELSE /\ last'.ptr = pool.freeElementListTop
               /\ freeMemoryElementCount(pool')
                     = freeMemoryElementCount(pool) - 1
               /\ pool'.freeElementListTop = pool.mem[pool.freeElementListTop]
               /\ FreeList(pool') = Tail(FreeList(pool))
      ]_vars

\* C26 happens: allocate() has returned null on a pool all of whose
\* elements are handed out.
PoolExhausted ==
    /\ last.op = "pool.allocate"
    /\ last.ptr = NULL
    /\ freeMemoryElementCount(pool) = 0
    /\ Cardinality(held) = memoryElementCount(pool)

\* C27: MemoryPool::deallocate(p) changes nothing when p is null or lies
\* outside [managedAddresMin, managedAddresMax]; for p inside it makes p the
\* list head, linked to the old head, and raises the free count by one.
PoolDeallocateEffect ==
    [][ /\ last'.op = "pool.deallocate foreign" =>
             /\ \/ last'.ptr = NULL
                \/ last'.ptr < managedAddresMin(pool)
                \/ last'.ptr > managedAddresMax(pool)
             /\ pool' = pool
        /\ last'.op = "pool.deallocate" =>
             /\ managedAddresMin(pool) <= last'.ptr
             /\ last'.ptr <= managedAddresMax(pool)
             /\ pool'.freeElementListTop = last'.ptr
             /\ pool'.mem[last'.ptr] = pool.freeElementListTop
             /\ FreeList(pool') = <<last'.ptr>> \o FreeList(pool)
             /\ freeMemoryElementCount(pool')
                   = freeMemoryElementCount(pool) + 1
      ]_vars

\* C27 happens: a pool with elements handed out was given the address right
\* after its buffer.
ForeignIgnoredByPool ==
    /\ last.op = "pool.deallocate foreign"
    /\ last.ptr = managedAddresMax(pool) + 1
    /\ held # {}

\* C22: FixedMemoryManager::deallocate(p) terminates for every number of
\* pools and every pointer p that lies in one of the pools: the search
\* loop over (l, r, p) never runs for ever.
SearchTerminates ==
    \A k \in DOMAIN mgrs :
        \A h \in held :
            (h.class = k /\ h.pool \in PoolIds(mgrs[k])) =>
                \A f \in FindPool(mgrs[k], h.ptr) : f.kind # "hung"

\* The pool object m_allocPool points to, as allocate() reads it.
TargetRead(m) ==
    IF TargetIndex(m) # 0 THEN m.poolList[TargetIndex(m)] ELSE m.stale

\* C28: allocate() adds a pool if and only if the target pool has no free
\* element when the call is made; the pool count then grows by one, the
\* pools owned before stay in the list as they were, the new pool has the
\* manager's element size and element count, and it is the new target; in
\* any other call the pool list and the target stay as they were.
GrowsIffTargetEmpty ==
    [][ (last'.op = "allocate" /\ status' # "crashed") =>
          LET m == mgrs[last'.class]
              after == mgrs'[last'.class]
          IN  /\ (last'.grew \/ last'.exception)
                    <=> (freeMemoryElementCount(TargetRead(m)) = 0)
              /\ IF last'.grew
                 THEN /\ after.poolCount = m.poolCount + 1
                      /\ Len(after.poolList) = Len(m.poolList) + 1
                      /\ PoolIds(m) \subseteq PoolIds(after)
                      /\ \A id \in PoolIds(m) : PoolOf(after, id) = PoolOf(m, id)
                      /\ after.allocPool \in PoolIds(after) \ PoolIds(m)
                      /\ PoolOf(after, after.allocPool).elementSize
                            = m.elementSize
                      /\ memoryElementCount(PoolOf(after, after.allocPool))
                            = poolManagedElementCount(m)
                 ELSE /\ after.poolCount = m.poolCount
                      /\ PoolIds(after) = PoolIds(m)
                      /\ after.allocPool = m.allocPool
      ]_vars

\* C29: an allocate() that ends without an exception returns to its caller
\* the element popped from the target pool (the new pool when it grew): the
\* pointer is not null, lies in that pool's address span, and the pool's
\* free count is one lower than before the pop.
AllocateReturnsPopped ==
    [][ (last'.op = "allocate" /\ ~last'.exception) =>
          /\ status' = "ok"
          /\ last'.ptr # NULL
          /\ last'.pool \in PoolIds(mgrs'[last'.class])
          /\ LET pl == PoolOf(mgrs'[last'.class], last'.pool)
             IN  /\ managedAddresMin(pl) <= last'.ptr
                 /\ last'.ptr <= managedAddresMax(pl)
                 /\ freeMemoryElementCount(pl) + 1
                       = (IF last'.grew THEN memoryElementCount(pl)
                          ELSE freeMemoryElementCount(
                                   PoolOf(mgrs[last'.class], last'.pool)))
      ]_vars

\* C30: when deallocate() removes the pool that is the target, the target
\* is set to a pool that remains, and not to one without a free element
\* when a remaining pool has one.
EvictionRepointsTarget ==
    [][ ( /\ last'.op = "deallocate"
          /\ status' = "ok"
          /\ last'.removed
          /\ last'.pool = mgrs[last'.class].allocPool ) =>
          LET after == mgrs'[last'.class]
          IN  /\ TargetIndex(after) # 0
              /\ (\E id \in PoolIds(after) :
                      freeMemoryElementCount(PoolOf(after, id)) > 0)
                    => freeMemoryElementCount(TargetRead(after)) > 0
      ]_vars

\* ------------------------------------- GlobalMemoryManager, fair scheduling

\* A pool after allocate() has been called on it until it returned null.
RECURSIVE Drain(_)
Drain(pl) ==
    IF pl.freeElementListTop = NULL THEN pl ELSE Drain(PoolAllocate(pl).pool)

\* The manager of one class in a program that has been running: after
\* poolNElementCount(1) and as many allocate() calls as its first pool has
\* elements, all kept by a consumer that does not give them back.
InService(m) ==
    poolManagedElementCountSet([m EXCEPT !.poolList[1] = Drain(@)], 1)

\* The program after start-up: the DynamicMemoryManager is constructed, its
\* 16 byte class is in service, no call is under way.
InitGlobalFair ==
    /\ pool = NoPool
    /\ mgrs = [ DynamicMemoryManager(INIT_COUNT16, INIT_COUNT32, INIT_COUNT64,
                                     INIT_COUNT128, INIT_COUNT256, DynBases)
                EXCEPT !["m_memory16"] = InService(@) ]
    /\ sys = {}
    /\ held = {}
    /\ last = NoCall
    /\ log = <<>>
    /\ status = "ok"
    /\ g_globalMemoryControl = InstanceBase
    /\ g_initGlobalMemoryFlag = "set"
    /\ g_globalMemoryControlMutex = 0
    /\ threads = [t \in Threads |-> NoFrame]
    /\ result = <<>>
    /\ NoLogSystem
    /\ memoryPool = <<>>
    /\ array = <<>>

NextGlobalFair ==
    \/ \E t \in Threads : Call(t)
    \/ \E t \in Threads : LockGuard(t)
    \/ \E t \in Threads : CallOncePass(t)
    \/ \E t \in Threads : Enter(t)
    \/ \E t \in Threads : Return(t)
    \/ \E t \in Threads : Unlock(t)

\* Fair scheduling: the thread that holds the mutex runs its call further
\* whenever it can (only the holder is past the lock_guard, so these steps
\* are always its own), and a thread that waits for the mutex gets it when
\* it is free again and again.  Nothing makes a thread start a call.
FairScheduling ==
    /\ \A t \in Threads : SF_vars(LockGuard(t))
    /\ WF_vars(\E t \in Threads :
                  CallOncePass(t) \/ Enter(t) \/ Return(t) \/ Unlock(t))

SpecGlobalFair == InitGlobalFair /\ [][NextGlobalFair]_vars /\ FairScheduling

\* C23: under fair scheduling every GlobalMemoryManager call that a thread
\* has started returns in the end, as long as the program has not ended:
\* the lock is always released again and no thread blocks for ever.
EveryCallReturns ==
    \A t \in Threads :
        (threads[t].pc = "lock")
            ~> (threads[t].pc = "idle" \/ status \in {"crashed", "corrupt"})

\* C21: Array::insert(index, value) and Array::removeAt(index) throw
\* BufferOverException for an index outside the array's elements and leave
\* the array as it was; for an index inside (index <= count() for insert,
\* index < count() for removeAt) they do not throw and change count() by
\* exactly one.
ArrayIndexChecked ==
    [][ /\ array'.op = "insert" =>
             IF USizeLess(array.obj.m_count, array'.index)
             THEN array'.threw /\ array'.obj = array.obj
             ELSE /\ ~array'.threw
                  /\ array'.obj.m_count = array.obj.m_count + 1
        /\ array'.op = "removeAt" =>
             IF ~USizeLess(array'.index, array.obj.m_count)
             THEN array'.threw /\ array'.obj = array.obj
             ELSE /\ ~array'.threw
                  /\ array'.obj.m_count = array.obj.m_count - 1
      ]_vars

\* The capacity a pool gets under the setting count.
CapacityFor(count) == IF count < 1 THEN 1 ELSE count

\* Every pool of the manager has the capacity of the current setting.
UniformCapacity(m) ==
    \A i \in 1..Len(m.poolList) :
        memoryElementCount(m.poolList[i])
            = CapacityFor(poolManagedElementCount(m))

\* C31 as stated: all pools owned by one FixedMemoryManager have the same
\* element size and the same element count in every reachable state, for
\* any sequence of allocate(), deallocate() and poolManagedElementCount(count)
\* calls.
PoolsUniform ==
    \A k \in DOMAIN mgrs :
        \A i, j \in 1..Len(mgrs[k].poolList) :
            /\ mgrs[k].poolList[i].elementSize
                  = mgrs[k].poolList[j].elementSize
            /\ memoryElementCount(mgrs[k].poolList[i])
                  = memoryElementCount(mgrs[k].poolList[j])

\* C31 amended: all pools owned by one FixedMemoryManager have the same
\* element size in every reachable state; a pool keeps the element count
\* it was created with, and the counts of all pools are the same for as
\* long as poolManagedElementCount(count) does not change the setting.
PoolsUniformUntilSet ==
    [][ \A k \in DOMAIN mgrs' :
          LET m == mgrs[k]
              after == mgrs'[k]
          IN  /\ \A i, j \in 1..Len(after.poolList) :
                     after.poolList[i].elementSize
                         = after.poolList[j].elementSize
              /\ \A id \in PoolIds(m) \cap PoolIds(after) :
                     memoryElementCount(PoolOf(after, id))
                         = memoryElementCount(PoolOf(m, id))
              /\ ( /\ UniformCapacity(m)
                   /\ CapacityFor(poolManagedElementCount(after))
                         = CapacityFor(poolManagedElementCount(m)) )
                    => UniformCapacity(after)
      ]_vars

\* C31 happens: after the setting was changed the manager owns two pools of
\* different capacity and the same element size, both with elements in use.
PoolsDifferAfterSet ==
    /\ status = "ok"
    /\ \E i, j \in 1..Len(mgrs[TheManager].poolList) :
           /\ memoryElementCount(mgrs[TheManager].poolList[i])
                 < memoryElementCount(mgrs[TheManager].poolList[j])
           /\ InUse(mgrs[TheManager].poolList[i]) > 0
           /\ InUse(mgrs[TheManager].poolList[j]) > 0

\* -------------------------------------- a FixedMemoryManager with more pools

\* FixedMemoryManager(16, 1) after n calls of allocate() whose buffers
\* std::malloc laid at rising addresses: n pools of one element, all in use.
RECURSIVE Filled(_)
Filled(n) ==
    IF n = 1
    THEN (CHOOSE o \in AllocateBody(FixedMemoryManager(SIZE16, 1, Base(1)),
                                    {}, FALSE) : TRUE).m
    ELSE (CHOOSE o \in AllocateGrow(Filled(n - 1), {Base(n)}) : TRUE).m

SearchSlots == 1..(MaxSearchPools + 1)

InitSearch ==
    /\ pool = NoPool
    /\ \E n \in 1..MaxSearchPools :
           /\ mgrs = (TheManager :> Filled(n))
           /\ held = { Holding(Base(i), 0, TheManager, Base(i)) : i \in 1..n }
    /\ sys = {}
    /\ last = NoCall
    /\ log = <<>>
    /\ status = "ok"
    /\ NoFacade

DeallocateOutside == ManagerDeallocateForeign(TheManager, SearchSlots)

AllocateAmong == ManagerAllocate(TheManager, 0, SearchSlots)

NextSearch ==
    \/ Unlogged(AllocateAmong)
    \/ Unlogged(Deallocate)
    \/ Unlogged(DeallocateOutside)

SpecSearch == InitSearch /\ [][NextSearch]_vars

\* C32: in FixedMemoryManager::deallocate the index p with which
\* m_poolList[p] is read, in the search loop, for the free and for the
\* eviction, satisfies 0 <= p < m_poolCount, for every pool count of 1 or
\* more and every pointer.
ProbeInRange ==
    [][ ( /\ last'.op \in {"deallocate", "deallocate foreign"}
          /\ mgrs[last'.class].poolCount >= 1 ) =>
          /\ status' # "crashed"
          /\ \A f \in FindPool(mgrs[last'.class], last'.ptr) :
                 f.kind # "crashed" /\ 0 <= f.p
                                   /\ f.p < mgrs[last'.class].poolCount
      ]_vars

\* The elements in use in the pools of a list, added up.
RECURSIVE InUseTotal(_)
InUseTotal(list) ==
    IF list = <<>> THEN 0 ELSE InUse(Head(list)) + InUseTotal(Tail(list))

\* C33: for a FixedMemoryManager given only pointers it handed out, in
\* every reachable state the elements in use in its pools add up to the
\* number of pointers allocate() returned that were not yet given to
\* deallocate(), and each of those pointers lies in the span of a pool in
\* the pool list.
OutstandingAccounted ==
    \A k \in DOMAIN mgrs :
        /\ InUseTotal(mgrs[k].poolList)
              = Cardinality({ h \in held : h.class = k })
        /\ \A h \in held :
               h.class = k =>
                   \E i \in 1..Len(mgrs[k].poolList) :
                       /\ managedAddresMin(mgrs[k].poolList[i]) <= h.ptr
                       /\ h.ptr <= managedAddresMax(mgrs[k].poolList[i])

\* C34: DynamicMemoryManager::allocate(size) and deallocate(p, size), when
\* they return, have changed at most the class manager that size selects:
\* the pool lists, targets and free lists of the four others are as they
\* were, and for a size above 256 all five are.
OtherClassesUntouched ==
    [][ ( /\ last'.op \in {"allocate", "deallocate"}
          /\ status' \in {"ok", "hung"} ) =>
          \A k \in DOMAIN mgrs :
              k # SmallestClass(last'.size) =>
                  /\ k \in DOMAIN mgrs'
                  /\ mgrs'[k] = mgrs[k]
      ]_vars

\* C34 happens: a request of 10 bytes made the 16 byte class grow while a
\* block above 256 bytes is held.
GrewBesideSystemBlock ==
    /\ status = "ok"
    /\ last.op = "allocate"
    /\ last.class = "m_memory16"
    /\ last.grew
    /\ sys # {}

\* ------------------------------------ the facade when memory is short

\* Where the DynamicMemoryManager blocks of failed constructions lie: the
\* exception leaves initGlobalMemory with the block still allocated.
LeakedBase == Base(Len(Classes) + 4)

\* initGlobalMemoryThrows without a lock_guard: the exception leaves the
\* call with the mutex still locked.
initGlobalMemoryThrowsLocked(t) ==
    /\ status = "ok"
    /\ threads[t].pc = "init"
    /\ g_initGlobalMemoryFlag' = "unset"
    /\ sys' = sys \cup {LeakedBase}
    /\ last' = [NoCall EXCEPT !.op = "initGlobalMemory", !.exception = TRUE]
    /\ threads' = [threads EXCEPT ![t] = [NoFrame EXCEPT
                                            !.cycles = threads[t].cycles + 1]]
    /\ UNCHANGED <<pool, mgrs, held, log, status, result, array, logSystem, memoryPool,
                   g_globalMemoryControl, g_globalMemoryControlMutex>>

\* initGlobalMemory() when std::malloc has no buffer for one of the first
\* pools: the MemoryPool constructor throws MemoryException, the managers
\* constructed so far are destroyed, g_globalMemoryControl is not assigned,
\* call_once leaves the flag unset and passes the exception on, and the
\* call unwinds through the lock_guard.
initGlobalMemoryThrows(t) ==
    /\ status = "ok"
    /\ threads[t].pc = "init"
    /\ g_initGlobalMemoryFlag' = "unset"
    /\ sys' = sys \cup {LeakedBase}
    /\ last' = [NoCall EXCEPT !.op = "initGlobalMemory", !.exception = TRUE]
    /\ threads' = [threads EXCEPT ![t].pc = "unlock"]
    /\ UNCHANGED <<pool, mgrs, held, log, status, result, array, logSystem, memoryPool,
                   g_globalMemoryControl, g_globalMemoryControlMutex>>

\* initGlobalMemory() when std::malloc has no block for the
\* DynamicMemoryManager itself: the placement new gets a null pointer.  The
\* build either constructs at address 0, which ends the program, or gives
\* null as the value of the new expression, and call_once sets the flag.
initGlobalMemoryNoObject(t) ==
    /\ status = "ok"
    /\ threads[t].pc = "init"
    /\ \/ /\ Crashed([NoCall EXCEPT !.op = "initGlobalMemory"])
          /\ UNCHANGED <<threads, g_globalMemoryControl,
                         g_initGlobalMemoryFlag>>
       \/ /\ g_globalMemoryControl' = NULL
          /\ g_initGlobalMemoryFlag' = "set"
          /\ last' = [NoCall EXCEPT !.op = "initGlobalMemory"]
          /\ threads' = [threads EXCEPT ![t].pc = "delegate"]
          /\ UNCHANGED <<pool, mgrs, sys, held, status>>
    /\ UNCHANGED <<log, result, array, logSystem, memoryPool,
                   g_globalMemoryControlMutex>>

\* The delegate call while std::malloc has nothing to give.
ReturnLow(t) == ReturnWith(t, {})

\* The program starts, or has been running, as memory runs short.
InitGlobalLow == InitGlobal \/ InitGlobalFair

\* The steps while std::malloc has no buffer for a pool: the construction
\* throws, and so does a call that has to add a pool.
NextGlobalThrows ==
    \/ \E t \in Threads : Call(t)
    \/ \E t \in Threads : LockGuard(t)
    \/ \E t \in Threads : CallOnceBegin(t)
    \/ \E t \in Threads : CallOncePass(t)
    \/ \E t \in Threads : initGlobalMemoryThrows(t)
    \/ \E t \in Threads : Enter(t)
    \/ \E t \in Threads : ReturnLow(t)
    \/ \E t \in Threads : Unlock(t)

SpecGlobalThrows == InitGlobalLow /\ [][NextGlobalThrows]_vars

\* The same with the std::malloc of the DynamicMemoryManager block failing
\* as well.
NextGlobalLow ==
    \/ NextGlobalThrows
    \/ \E t \in Threads : initGlobalMemoryNoObject(t)

SpecGlobalLow == InitGlobalLow /\ [][NextGlobalLow]_vars

\* A GlobalMemoryManager call is in progress: a thread is past the
\* lock_guard of its call.
CallInProgress == \E t \in DOMAIN threads : threads[t].pc \in PastLock

\* C35: the global mutex is free whenever no GlobalMemoryManager call is in
\* progress; a call that ends with MemoryException (the construction or the
\* growth of a pool failed) goes through the lock_guard's destructor like a
\* call that returns, so every thread can take the mutex afterwards.
MutexFreeWhenIdle ==
    /\ ~CallInProgress => g_globalMemoryControlMutex = 0
    /\ \A t \in DOMAIN threads :
           threads[t].pc = "unlock" => g_globalMemoryControlMutex = t

\* C35 happens: a call has ended with MemoryException, no call is in
\* progress, the mutex is free and a thread waits to take it.
FreeAfterException ==
    /\ status = "ok"
    /\ last.exception
    /\ ~CallInProgress
    /\ g_globalMemoryControlMutex = 0
    /\ \E t \in DOMAIN threads : threads[t].pc = "lock"

\* C36: when the one-time construction of the global DynamicMemoryManager
\* fails with MemoryException, g_globalMemoryControl stays unset and the
\* once-flag is not set, the exception ends the call that ran the
\* construction, and a later call that finds g_globalMemoryControl unset
\* runs the construction again; no call enters the DynamicMemoryManager
\* through an unset g_globalMemoryControl.
FailedConstructionRetried ==
    [][ \A t \in DOMAIN threads' :
          /\ ( /\ t \in DOMAIN threads
               /\ threads[t].pc = "init"
               /\ threads'[t].pc # "init"
               /\ last'.op = "initGlobalMemory"
               /\ last'.exception ) =>
                 /\ g_globalMemoryControl' = NULL
                 /\ g_initGlobalMemoryFlag' = "unset"
                 /\ threads'[t].pc = "unlock"
          /\ ( /\ t \in DOMAIN threads
               /\ threads[t].pc = "call_once"
               /\ threads'[t].pc # "call_once"
               /\ g_globalMemoryControl = NULL ) =>
                 threads'[t].pc = "init"
          /\ threads'[t].pc = "inside" => threads'[t].self # NULL
      ]_vars

\* ------------------------------------------- the log system (Utility.cpp)

MaxLoggers == 2           \* threads that log
MaxLogCalls == 1          \* calls each of them makes
MaxLive == 2              \* Logger instances a thread holds at a time

LogThreads == 1..MaxLoggers

\* g_pFile once fopen_s has opened the log file.
LogFile == 1

\* Log, LogWarning and LogError with the label each gives its Logger.
LogLabels == [Log |-> "LOG", LogWarning |-> "WARNING", LogError |-> "ERROR"]

\* The frame of a thread that logs: where it is (pc), the function it has
\* called (op), the label, its live Logger instances (for each, whether
\* its constructor locked the mutex) and the calls it has finished.
NoLogger ==
    [ pc |-> "idle", op |-> "none", label |-> "none", live |-> <<>>,
      calls |-> 0 ]

\* What the log system leaves alone.
notLog == <<pool, mgrs, sys, held, last, log, g_globalMemoryControl,
            g_initGlobalMemoryFlag, g_globalMemoryControlMutex, threads,
            result, array, memoryPool>>

\* Where a thread is once a constructor has returned: a Log call goes on
\* to Wright, a thread with a Logger of its own holds it.
Constructed(op) == IF op = "Logger" THEN "holding" ELSE "Wright"

\* The frame f once a destructor has returned: the thread holds the
\* instances it has left, or its call or its use of a Logger is over.
Destroyed(f) ==
    IF f.live = <<>>
    THEN [NoLogger EXCEPT !.calls = f.calls + 1]
    ELSE [f EXCEPT !.pc = "holding"]

\* A thread calls Log, LogWarning or LogError: Logger(LABEL).Wright(message)
LogCall(t) ==
    /\ status = "ok"
    /\ loggers[t].pc = "idle"
    /\ loggers[t].calls < MaxLogCalls
    /\ \E op \in DOMAIN LogLabels :
           loggers' = [loggers EXCEPT ![t].pc = "call_once", ![t].op = op,
                                      ![t].label = LogLabels[op]]
    /\ UNCHANGED <<notLog, status, g_pFile, g_logMutexF,
                   g_initializeLogSystemOnceF, written>>

\* A thread constructs a Logger of its own with the label LOG, its first
\* or one more while it holds the ones before.
LoggerConstruct(t) ==
    /\ status = "ok"
    /\ loggers[t].pc \in {"idle", "holding"}
    /\ loggers[t].calls < MaxLogCalls
    /\ Len(loggers[t].live) < MaxLive
    /\ loggers' = [loggers EXCEPT ![t].pc = "call_once",
                                  ![t].op = "Logger",
                                  ![t].label = LogLabels.Log]
    /\ UNCHANGED <<notLog, status, g_pFile, g_logMutexF,
                   g_initializeLogSystemOnceF, written>>

\* std::call_once(g_initializeLogSystemOnceF, InitializeLogSystem) with the
\* flag not set: fopen_s opens the file and sets g_pFile, or fails.
InitializeLogSystem(t) ==
    /\ status = "ok"
    /\ loggers[t].pc = "call_once"
    /\ g_initializeLogSystemOnceF = "unset"
    /\ g_initializeLogSystemOnceF' = "set"
    /\ \E opened \in BOOLEAN : g_pFile' = IF opened THEN LogFile ELSE NULL
    /\ loggers' = [loggers EXCEPT ![t].pc = "test"]
    /\ UNCHANGED <<notLog, status, g_logMutexF, written>>

\* std::call_once with the flag set.
LoggerCallOncePass(t) ==
    /\ status = "ok"
    /\ loggers[t].pc = "call_once"
    /\ g_initializeLogSystemOnceF = "set"
    /\ loggers' = [loggers EXCEPT ![t].pc = "test"]
    /\ UNCHANGED <<notLog, status, g_pFile, g_logMutexF,
                   g_initializeLogSystemOnceF, written>>

\* if (g_pFile == nullptr) return; in the constructor
LoggerTest(t) ==
    /\ status = "ok"
    /\ loggers[t].pc = "test"
    /\ loggers' = IF g_pFile = NULL
                  THEN [loggers EXCEPT
                          ![t].pc = Constructed(loggers[t].op),
                          ![t].live = Append(@, FALSE)]
                  ELSE [loggers EXCEPT ![t].pc = "lock"]
    /\ UNCHANGED <<notLog, status, g_pFile, g_logMutexF,
                   g_initializeLogSystemOnceF, written>>

\* LoggerLock without the wait for the mutex.
LoggerLockFree(t) ==
    /\ status = "ok"
    /\ loggers[t].pc = "lock"
    /\ g_logMutexF # t
    /\ g_logMutexF' = t
    /\ loggers' = [loggers EXCEPT ![t].pc = "label"]
    /\ UNCHANGED <<notLog, status, g_pFile, g_initializeLogSystemOnceF,
                   written>>

\* g_logMutexF.lock() in the constructor, the mutex held by no thread or by
\* another, for which the call waits.
LoggerLock(t) ==
    /\ status = "ok"
    /\ loggers[t].pc = "lock"
    /\ g_logMutexF = 0
    /\ g_logMutexF' = t
    /\ loggers' = [loggers EXCEPT ![t].pc = "label"]
    /\ UNCHANGED <<notLog, status, g_pFile, g_initializeLogSystemOnceF,
                   written>>

\* LoggerRelock on a recursive mutex: the owner locks once more.
LoggerRelockRecursive(t) ==
    /\ status = "ok"
    /\ loggers[t].pc = "lock"
    /\ g_logMutexF = t
    /\ loggers' = [loggers EXCEPT ![t].pc = "label"]
    /\ UNCHANGED <<notLog, status, g_pFile, g_logMutexF,
                   g_initializeLogSystemOnceF, written>>

\* g_logMutexF.lock() by the thread that holds the mutex.  This is
\* undefined for a std::mutex: the call blocks for ever, or the library
\* reports the error with an exception, which ends the program in the
\* noexcept constructor.
LoggerRelock(t) ==
    /\ status = "ok"
    /\ loggers[t].pc = "lock"
    /\ g_logMutexF = t
    /\ loggers' = [loggers EXCEPT ![t].pc = "blocked"]
    /\ status' \in {"ok", "crashed"}
    /\ UNCHANGED <<notLog, g_pFile, g_logMutexF, g_initializeLogSystemOnceF,
                   written>>

\* The fprintf of the time and the label; the constructor returns.
LoggerLabel(t) ==
    /\ status = "ok"
    /\ loggers[t].pc = "label"
    /\ written' = Append(written, [thread |-> t, part |-> "label"])
    /\ loggers' = [loggers EXCEPT ![t].pc = Constructed(loggers[t].op),
                                  ![t].live = Append(@, TRUE)]
    /\ UNCHANGED <<notLog, status, g_pFile, g_logMutexF,
                   g_initializeLogSystemOnceF>>

\* Logger::Wright(message) on the temporary of a Log call; it returns a
\* reference to the same instance.
Wright(t) ==
    /\ status = "ok"
    /\ loggers[t].pc = "Wright"
    /\ written' = IF g_pFile # NULL
                  THEN Append(written, [thread |-> t, part |-> "message"])
                  ELSE written
    /\ loggers' = [loggers EXCEPT ![t].pc = "dtor"]
    /\ UNCHANGED <<notLog, status, g_pFile, g_logMutexF,
                   g_initializeLogSystemOnceF>>

\* ~Logger() of the thread's newest instance up to the fflush: it returns
\* at once when g_pFile is null, else it writes the newline.
LoggerDestroy(t) ==
    /\ status = "ok"
    /\ loggers[t].pc \in {"dtor", "holding"}
    /\ loggers[t].live # <<>>
    /\ IF g_pFile = NULL
       THEN /\ LET f == [loggers[t] EXCEPT !.live = SubSeq(@, 1, Len(@) - 1)]
               IN  loggers' = [loggers EXCEPT ![t] = Destroyed(f)]
            /\ UNCHANGED written
       ELSE /\ written' = Append(written, [thread |-> t, part |-> "newline"])
            /\ loggers' = [loggers EXCEPT ![t].pc = "unlock"]
    /\ UNCHANGED <<notLog, status, g_pFile, g_logMutexF,
                   g_initializeLogSystemOnceF>>

\* g_logMutexF.unlock() at the end of ~Logger().
LoggerUnlock(t) ==
    /\ status = "ok"
    /\ loggers[t].pc = "unlock"
    /\ g_logMutexF' = 0
    /\ LET f == [loggers[t] EXCEPT !.live = SubSeq(@, 1, Len(@) - 1)]
       IN  loggers' = [loggers EXCEPT ![t] = Destroyed(f)]
    /\ UNCHANGED <<notLog, status, g_pFile, g_initializeLogSystemOnceF,
                   written>>

InitLog ==
    /\ pool = NoPool
    /\ mgrs = <<>>
    /\ sys = {}
    /\ held = {}
    /\ last = NoCall
    /\ log = <<>>
    /\ status = "ok"
    /\ g_globalMemoryControl = NULL
    /\ g_initGlobalMemoryFlag = "unset"
    /\ g_globalMemoryControlMutex = 0
    /\ threads = <<>>
    /\ result = <<>>
    /\ array = <<>>
    /\ memoryPool = <<>>
    /\ g_pFile = NULL
    /\ g_logMutexF = 0
    /\ g_initializeLogSystemOnceF = "unset"
    /\ loggers = [t \in LogThreads |-> NoLogger]
    /\ written = <<>>

\* Threads that log through Log, LogWarning and LogError only.
NextLog ==
    \/ \E t \in LogThreads : LogCall(t)
    \/ \E t \in LogThreads : InitializeLogSystem(t)
    \/ \E t \in LogThreads : LoggerCallOncePass(t)
    \/ \E t \in LogThreads : LoggerTest(t)
    \/ \E t \in LogThreads : LoggerLock(t)
    \/ \E t \in LogThreads : LoggerLabel(t)
    \/ \E t \in LogThreads : Wright(t)
    \/ \E t \in LogThreads : LoggerDestroy(t)
    \/ \E t \in LogThreads : LoggerUnlock(t)

SpecLog == InitLog /\ [][NextLog]_vars

\* Threads that construct and destroy Logger instances of their own.
NextLogger ==
    \/ \E t \in LogThreads : LoggerConstruct(t)
    \/ \E t \in LogThreads : InitializeLogSystem(t)
    \/ \E t \in LogThreads : LoggerCallOncePass(t)
    \/ \E t \in LogThreads : LoggerTest(t)
    \/ \E t \in LogThreads : LoggerLock(t)
    \/ \E t \in LogThreads : LoggerRelock(t)
    \/ \E t \in LogThreads : LoggerLabel(t)
    \/ \E t \in LogThreads : LoggerDestroy(t)
    \/ \E t \in LogThreads : LoggerUnlock(t)

SpecLogger == InitLog /\ [][NextLogger]_vars

\* A thread is in the constructor of one more Logger while it holds one.
ConstructingSecond(f) ==
    f.live # <<>> /\ f.pc \in {"call_once", "test", "lock", "label", "blocked"}

WholeLines(w) ==
    \A i \in 1..Len(w) :
        CASE w[i].part = "label" -> i = 1 \/ w[i - 1].part = "newline"
          [] w[i].part = "message" ->
               /\ i > 1
               /\ w[i - 1].part = "label"
               /\ w[i - 1].thread = w[i].thread
          [] w[i].part = "newline" ->
               /\ i > 1
               /\ w[i - 1].part = "message"
               /\ w[i - 1].thread = w[i].thread

\* C38: every Log, LogWarning and LogError call leaves the log mutex
\* balanced.  The destructor unlocks exactly when the constructor of the
\* same instance locked (neither does when the log file could not be
\* opened); a thread whose call has returned does not hold the mutex, and
\* the mutex is free when no call is under way; only the thread that locked
\* the mutex unlocks it; and the label, the message and the newline of one
\* call stand together in the file, with no other thread's output between.
LogCallsBalanced ==
    [][ /\ \A t \in DOMAIN loggers' :
             /\ loggers'[t].pc = "idle" => g_logMutexF' # t
             /\ loggers'[t].pc = "unlock" => g_logMutexF' = t
             /\ loggers'[t].pc = "lock" => g_logMutexF' # t
             /\ ( /\ loggers[t].pc \in {"dtor", "unlock"}
                  /\ loggers'[t].pc = "idle" ) =>
                    ( (g_logMutexF = t /\ g_logMutexF' = 0)
                        <=> loggers[t].live[Len(loggers[t].live)] )
             /\ loggers'[t].live # <<>> =>
                    ( loggers'[t].live[1] <=> g_logMutexF' = t )
        /\ (\A t \in DOMAIN loggers' : loggers'[t].pc = "idle") =>
               g_logMutexF' = 0
        /\ (g_logMutexF # 0 /\ g_logMutexF' # g_logMutexF) =>
               /\ loggers[g_logMutexF].pc = "unlock"
               /\ loggers'[g_logMutexF].pc = "idle"
        /\ WholeLines(written')
      ]_vars

\* C38 happens: two threads have each made a call that wrote its line, one
\* after the other, all calls have returned and the mutex is free.
TwoLinesWritten ==
    /\ Len(written) = 6
    /\ written[1].thread # written[4].thread
    /\ \A t \in DOMAIN loggers :
           loggers[t].pc = "idle" /\ loggers[t].calls = 1
    /\ g_logMutexF = 0

\* ------------------- MemoryPool<ELEMENT_SIZE, ELEMENTS_COUNT> (Memory.cpp)

MaxTemplateElements == 3  \* largest ELEMENTS_COUNT
MaxUnderflow == 2         \* Allocate() calls followed on an empty pool

\* The values of the template parameter ELEMENT_SIZE.
ElementSizes == {PointerWidth, SIZE16}

\* The address of m_buffer[0] in the pool object.
BufferAddress == Base(1)

\* An address outside the buffer, read from address 0.
Wild == 1

\* The addresses of the elements of a pool.
TemplateElements(p) ==
    { p.m_bufferAddressMin + i * p.ELEMENT_SIZE
        : i \in 0..(p.ELEMENTS_COUNT - 1) }

\* The loop of the constructor from element i on: each element gets the
\* list top before it as its link and becomes the top.
RECURSIVE LinkBuffer(_, _)
LinkBuffer(p, i) ==
    IF i * p.ELEMENT_SIZE >= p.BUFFER_SIZE THEN p
    ELSE LET ptr == p.m_bufferAddressMin + i * p.ELEMENT_SIZE
         IN  LinkBuffer([p EXCEPT !.m_buffer = [a \in DOMAIN @ \cup {ptr} |->
                                         IF a = ptr THEN p.m_ppElementListTop
                                         ELSE @[a]],
                                    !.m_ppElementListTop = ptr],
                          i + 1)

\* MemoryPool<size, count>(): m_buffer holds the link stored in each free
\* element.
TemplateMemoryPool(size, count) ==
    LinkBuffer([ ELEMENT_SIZE |-> size, ELEMENTS_COUNT |-> count,
                   BUFFER_SIZE |-> size * count,
                   m_buffer |-> <<>>,
                   m_ppElementListTop |-> NULL,
                   m_currentElementsCount |-> count,
                   m_bufferAddressMin |-> BufferAddress,
                   m_bufferAddressMaxOver |-> BufferAddress + size * count ],
                 0)

\* Allocate(): the outcomes, each the pool after the call, the pointer
\* returned and whether the program goes on.  The count is decremented as a
\* USize (a negative number k stands for 2^64 + k).  The link is read
\* through the list top; with a top that is no element (null on an empty
\* pool) the read is undefined: it ends the program or gives any value.
TemplateAllocate(p) ==
    LET q == [p EXCEPT !.m_currentElementsCount = @ - 1]
        ptr == p.m_ppElementListTop
    IN  IF ptr \in DOMAIN p.m_buffer
        THEN { [ pool |-> [q EXCEPT !.m_ppElementListTop = p.m_buffer[ptr]],
                 ret |-> ptr, state |-> "ok" ] }
        ELSE { [ pool |-> q, ret |-> ptr, state |-> "crashed" ] }
             \cup { [ pool |-> [q EXCEPT !.m_ppElementListTop = v],
                      ret |-> ptr, state |-> "ok" ] : v \in {NULL, Wild} }

\* Deallocate(pointer)
TemplateDeallocate(p, pointer) ==
    [p EXCEPT !.m_currentElementsCount = @ + 1,
              !.m_buffer = [a \in DOMAIN @ \cup {pointer} |->
                              IF a = pointer THEN p.m_ppElementListTop
                              ELSE @[a]],
              !.m_ppElementListTop = pointer]

\* CurrentElementsCount()
CurrentElementsCount(p) == p.m_currentElementsCount

\* What the pool of Memory.cpp leaves alone.
notTemplate == <<pool, mgrs, sys, held, last, log, status,
                 g_globalMemoryControl, g_initGlobalMemoryFlag,
                 g_globalMemoryControlMutex, threads, result, array,
                 logSystem>>

\* The pool with the pointers its user holds and the last call made.
InitTemplate ==
    /\ pool = NoPool
    /\ mgrs = <<>>
    /\ sys = {}
    /\ held = {}
    /\ last = NoCall
    /\ log = <<>>
    /\ status = "ok"
    /\ g_globalMemoryControl = NULL
    /\ g_initGlobalMemoryFlag = "unset"
    /\ g_globalMemoryControlMutex = 0
    /\ threads = <<>>
    /\ result = <<>>
    /\ array = <<>>
    /\ NoLogSystem
    /\ \E size \in ElementSizes, count \in 1..MaxTemplateElements :
           memoryPool = [ obj |-> TemplateMemoryPool(size, count),
                          out |-> {}, op |-> "MemoryPool", ret |-> NULL,
                          state |-> "ok" ]

\* ret = memoryPool.Allocate()
CallTemplateAllocate ==
    /\ memoryPool.state = "ok"
    /\ CurrentElementsCount(memoryPool.obj) > -MaxUnderflow
    /\ \E o \in TemplateAllocate(memoryPool.obj) :
           memoryPool' = [ obj |-> o.pool,
                           out |-> IF o.ret \in TemplateElements(o.pool)
                                   THEN memoryPool.out \cup {o.ret}
                                   ELSE memoryPool.out,
                           op |-> "Allocate", ret |-> o.ret,
                           state |-> o.state ]
    /\ UNCHANGED notTemplate

\* memoryPool.Deallocate(pointer) for a pointer the user holds.
CallTemplateDeallocate ==
    /\ memoryPool.state = "ok"
    /\ \E pointer \in memoryPool.out :
           memoryPool' = [ obj |-> TemplateDeallocate(memoryPool.obj, pointer),
                           out |-> memoryPool.out \ {pointer},
                           op |-> "Deallocate", ret |-> NULL,
                           state |-> "ok" ]
    /\ UNCHANGED notTemplate

NextTemplate == CallTemplateAllocate \/ CallTemplateDeallocate

SpecTemplate == InitTemplate /\ [][NextTemplate]_vars

\* C39: Allocate() on a MemoryPool of Memory.cpp whose current element
\* count is 0 returns no element and changes nothing, the count staying 0
\* and the list top null; and 0 <= CurrentElementsCount() <= ELEMENTS_COUNT
\* in every state.
EmptyAllocateReturnsNone ==
    [][ /\ ( /\ memoryPool'.op = "Allocate"
             /\ memoryPool' # memoryPool
             /\ CurrentElementsCount(memoryPool.obj) = 0 ) =>
               /\ memoryPool'.state = "ok"
               /\ memoryPool'.ret = NULL
               /\ memoryPool'.obj = memoryPool.obj
               /\ memoryPool'.obj.m_ppElementListTop = NULL
        /\ ~USizeLess(memoryPool'.obj.ELEMENTS_COUNT,
                      CurrentElementsCount(memoryPool'.obj))
      ]_vars
====
